---- MODULE Spec2Model ----
(***************************************************************************)
(* Model of the YouTube-to-Notion transcript pipeline:                     *)
(*   - RateLimiter (src/src/utils/rate_limiter.py) and the rate-limited     *)
(*     TranscriptExtractor.extract_transcript,                              *)
(*   - MultiPartSummarizer's circuit breaker and retry loop,                *)
(*   - VideoProcessor.process_single_video / check_and_process_videos,      *)
(*   - PlaylistHandler's playlist expansion.                                *)
(* Time is the wall clock in whole seconds.                                 *)
(***************************************************************************)
EXTENDS Integers, Sequences, FiniteSets, TLC

VARIABLES
    now,        \* datetime.now() / time.time(), seconds
    events,     \* environment events so far: clock advances between
                \* operations and failed reads/writes of the cache file
    rl,         \* RateLimiter.data of the live instance
    cacheFile,  \* rate_limit_cache.json on disk
    lastCheck,  \* when can_make_request was last called on this instance
    cb,         \* MultiPartSummarizer: consecutive_failures,
                \* last_failure_time, last_api_call_time
    apiCalls,   \* _make_api_call invocations so far
    lastOp,     \* the last operation run and what it was observed to do
    notion,     \* the Notion database: its pages in creation order
    db,         \* the local SQLite table processed_videos, by video id
    artifacts,  \* files and pages holding summaries: Notion summary
                \* pages, markdown_backups/, summaries/
    pass,       \* check_and_process_videos in progress: its position,
                \* the playlists and videos it fetched, its counters
    runs,       \* process_single_video invocations so far
    lastProc,   \* what the last process_single_video was observed to do
    lastExpand, \* what the last playlist expansion was observed to do
    main,       \* main(): its mode, its position, the scheduler's flag and
                \* jobs, whether processor.close() ran, the exit code
    peers       \* callers that run concurrently: the threads between an
                \* admission check and its record_request, a second
                \* scheduler instance and the batch it holds

envVars == <<now, events, lastOp>>
rlVars == <<rl, cacheFile, lastCheck>>
cbVars == <<cb, apiCalls>>
storeVars == <<notion, db, artifacts>>
procVars == <<storeVars, pass, runs, lastProc, lastExpand, main, peers>>
vars == <<envVars, rlVars, cbVars, procVars>>

(***************************************************************************)
(* Bounds of the model.                                                     *)
(***************************************************************************)
MaxEvents == 2
MaxApiCalls == 4
MaxRuns == 2
MaxPlaylistLen == 2
\* max_requests_per_hour / max_requests_per_day are constructor arguments
\* (50/200 in the extractor, 10/50 in the test); the model instantiates
\* them small so that both limits are reached.
MaxRequestsPerHour == 2
MaxRequestsPerDay == 3

(***************************************************************************)
(* Program constants.                                                       *)
(***************************************************************************)
Hour == 3600
Day == 86400
MinDelaySeconds == 3
BackoffMultiplier == 2
MaxMinDelayWait == 60
MaxHourlyWait == 300
BackoffThreshold == 3
BackoffBaseMinutes == 5
BackoffCapMinutes == 60
NoTime == -1
CircuitBreakerThreshold == 3
CircuitBreakerTimeout == 300
ApiDelay == 10
FailureDelay == 10
MaxRetries == 6
RetryBaseWait == 30
SummaryParts == 3
BatchCap == 15
PlaylistCap == 15
VideoProcessingDelay == 60
ErrorBackoffMultiplier == 30
MaxProcessingDelay == 600

\* Clock advances between operations, in seconds.
TickSteps == {MinDelaySeconds - 1, Hour - MaxHourlyWait, Day}

Min(a, b) == IF a < b THEN a ELSE b

(***************************************************************************)
(* RateLimiter                                                              *)
(***************************************************************************)
EmptyData ==
    [requests |-> <<>>, last_request_time |-> NoTime,
     consecutive_failures |-> 0, backoff_until |-> NoTime]

\* RateLimiter.__init__ / _load_cache: the file's content, or the defaults
\* when the file is missing or unreadable.
load_cache(file) == IF file.exists THEN file.data ELSE EmptyData

\* Mutant: the file is written without the backoff deadline.
save_cache_without_backoff(file, d, saveOk) ==
    IF saveOk THEN [exists |-> TRUE, data |-> [d EXCEPT !.backoff_until = NoTime]]
    ELSE file

\* _save_cache: a failed write is logged and ignored. The times are written
\* as ISO strings with their microseconds and read back by fromisoformat:
\* the file holds the values of the data.
save_cache(file, d, saveOk) ==
    IF saveOk THEN [exists |-> TRUE, data |-> d] ELSE file

InDayWindow(r, t) == r > t - Day
InHourWindow(r, t) == r > t - Hour

clean_old_requests(reqs, t) == SelectSeq(reqs, LAMBDA r : InDayWindow(r, t))

hourly_requests(reqs, t) == Len(SelectSeq(reqs, LAMBDA r : InHourWindow(r, t)))

in_backoff(d, t) == d.backoff_until # NoTime /\ t < d.backoff_until

\* Mutant: the daily comparison is off by one.
daily_limit_reached_off_by_one(n) == n > MaxRequestsPerDay

daily_limit_reached(n) == n >= MaxRequestsPerDay

hourly_limit_reached(n) == n >= MaxRequestsPerHour

required_delay(failures) == MinDelaySeconds * (BackoffMultiplier ^ failures)

\* Mutant: the spacing comparison is inverted.
too_soon_inverted(d, t) ==
    /\ d.last_request_time # NoTime
    /\ t - d.last_request_time > required_delay(d.consecutive_failures)

too_soon(d, t) ==
    /\ d.last_request_time # NoTime
    /\ t - d.last_request_time < required_delay(d.consecutive_failures)

\* Mutant: the hourly cap is tested before the daily cap.
can_make_request_hourly_first(d, t) ==
    IF in_backoff(d, t)
    THEN [data |-> d, ok |-> FALSE, reason |-> "backoff", wait |-> d.backoff_until - t]
    ELSE LET c == [d EXCEPT !.requests = clean_old_requests(@, t)] IN
         IF hourly_limit_reached(hourly_requests(c.requests, t))
         THEN [data |-> c, ok |-> FALSE, reason |-> "hourly", wait |-> 0]
         ELSE IF daily_limit_reached(Len(c.requests))
         THEN [data |-> c, ok |-> FALSE, reason |-> "daily", wait |-> 0]
         ELSE IF too_soon(c, t)
         THEN [data |-> c, ok |-> FALSE, reason |-> "mindelay",
               wait |-> required_delay(c.consecutive_failures)
                          - (t - c.last_request_time)]
         ELSE [data |-> c, ok |-> TRUE, reason |-> "none", wait |-> 0]

\* can_make_request: the data after the lazy purge, the verdict, the reason
\* and (for the spacing rule) the seconds still to wait.
can_make_request(d, t) ==
    IF in_backoff(d, t)
    THEN [data |-> d, ok |-> FALSE, reason |-> "backoff", wait |-> d.backoff_until - t]
    ELSE LET c == [d EXCEPT !.requests = clean_old_requests(@, t)] IN
         IF daily_limit_reached(Len(c.requests))
         THEN [data |-> c, ok |-> FALSE, reason |-> "daily", wait |-> 0]
         ELSE IF hourly_limit_reached(hourly_requests(c.requests, t))
         THEN [data |-> c, ok |-> FALSE, reason |-> "hourly", wait |-> 0]
         ELSE IF too_soon(c, t)
         THEN [data |-> c, ok |-> FALSE, reason |-> "mindelay",
               wait |-> required_delay(c.consecutive_failures)
                          - (t - c.last_request_time)]
         ELSE [data |-> c, ok |-> TRUE, reason |-> "none", wait |-> 0]

\* Seconds to the next top of the hour.
seconds_to_next_hour(t) == ((t \div Hour) + 1) * Hour - t

\* wait_if_needed: whether to proceed, and the clock after any sleep.
wait_if_needed(d, t) ==
    LET c == can_make_request(d, t) IN
    IF c.ok THEN [data |-> c.data, proceed |-> TRUE, now |-> t, reason |-> "none"]
    ELSE IF c.reason \in {"backoff", "daily"}
    THEN [data |-> c.data, proceed |-> FALSE, now |-> t, reason |-> c.reason]
    ELSE IF c.reason = "mindelay"
    THEN IF c.wait > MaxMinDelayWait
         THEN [data |-> c.data, proceed |-> FALSE, now |-> t, reason |-> "mindelay"]
         ELSE [data |-> c.data, proceed |-> TRUE, now |-> t + c.wait, reason |-> "mindelay"]
    ELSE \* "hourly"
         IF seconds_to_next_hour(t) > MaxHourlyWait
         THEN [data |-> c.data, proceed |-> FALSE, now |-> t, reason |-> "hourly"]
         ELSE [data |-> c.data, proceed |-> TRUE,
               now |-> t + seconds_to_next_hour(t), reason |-> "hourly"]

\* Mutant: the backoff is not capped.
backoff_minutes_uncapped(failures) ==
    BackoffBaseMinutes * (2 ^ (failures - BackoffThreshold))

backoff_minutes(failures) ==
    Min(BackoffCapMinutes, BackoffBaseMinutes * (2 ^ (failures - BackoffThreshold)))

\* record_request: append the timestamp and update the failure state.
record_request(d, t, success) ==
    LET r == [d EXCEPT !.requests = Append(@, t), !.last_request_time = t] IN
    IF success
    THEN [r EXCEPT !.consecutive_failures = 0, !.backoff_until = NoTime]
    ELSE LET f == d.consecutive_failures + 1 IN
         IF f >= BackoffThreshold
         THEN [r EXCEPT !.consecutive_failures = f,
                        !.backoff_until = t + 60 * backoff_minutes(f)]
         ELSE [r EXCEPT !.consecutive_failures = f]

\* get_status purges the day window in memory.
get_status(d, t) == [d EXCEPT !.requests = clean_old_requests(@, t)]

(***************************************************************************)
(* TranscriptExtractor.extract_transcript                                   *)
(***************************************************************************)
\* What the Content Source answers: a transcript, a transcript with no text,
\* or no transcript (TranscriptsDisabled, NoTranscriptFound, none listed,
\* any other exception: all end in "return None" with success unset).
FetchOutcomes == {"text", "empty", "failed"}

\* Mutant: every admitted call is recorded as a success.
fetch_success_always(outcome) == TRUE

\* success is set only on the path that returns the joined text.
fetch_success(outcome) == outcome \in {"text", "empty"}

\* The value handed back to the caller ("none" is Python's None).
fetch_result(outcome) ==
    IF outcome = "text" THEN "text" ELSE IF outcome = "empty" THEN "empty" ELSE "none"

\* Mutant: the rate-limit check sits inside the try/finally, so a denied
\* call is recorded as a failed request.
extract_transcript_records_denial(d, file, t, outcome, saveOk) ==
    LET s == get_status(d, t)
        w == wait_if_needed(s, t)
    IN  IF ~w.proceed
        THEN LET r == record_request(w.data, t, FALSE) IN
             [data |-> r, file |-> save_cache(file, r, saveOk), now |-> t,
              result |-> "none", called |-> FALSE, recorded |-> TRUE,
              reason |-> w.reason]
        ELSE LET r == record_request(w.data, w.now, fetch_success(outcome)) IN
             [data |-> r, file |-> save_cache(file, r, saveOk), now |-> w.now,
              result |-> fetch_result(outcome), called |-> TRUE,
              recorded |-> TRUE, reason |-> w.reason]

extract_transcript(d, file, t, outcome, saveOk) ==
    LET s == get_status(d, t)
        w == wait_if_needed(s, t)
    IN  IF ~w.proceed
        THEN [data |-> w.data, file |-> file, now |-> t, result |-> "none",
              called |-> FALSE, recorded |-> FALSE, reason |-> w.reason]
        ELSE LET r == record_request(w.data, w.now, fetch_success(outcome)) IN
             [data |-> r, file |-> save_cache(file, r, saveOk), now |-> w.now,
              result |-> fetch_result(outcome), called |-> TRUE,
              recorded |-> TRUE, reason |-> w.reason]

(***************************************************************************)
(* MultiPartSummarizer: circuit breaker and retry loop                     *)
(***************************************************************************)
\* __init__: last_api_call_time is 0, the epoch, i.e. long before any call;
\* NoTime stands for it.
NewSummarizer ==
    [consecutive_failures |-> 0, last_failure_time |-> NoTime,
     last_api_call_time |-> NoTime]

\* Mutant: the breaker opens one failure late.
breaker_tripped_late(failures) == failures > CircuitBreakerThreshold

breaker_tripped(failures) == failures >= CircuitBreakerThreshold

\* _check_circuit_breaker: whether the breaker is open, and the state after
\* the reset it makes once the timeout has expired.
check_circuit_breaker(c, t) ==
    IF breaker_tripped(c.consecutive_failures) /\ c.last_failure_time # NoTime
    THEN IF t - c.last_failure_time < CircuitBreakerTimeout
         THEN [open |-> TRUE, cb |-> c]
         ELSE [open |-> FALSE,
               cb |-> [c EXCEPT !.consecutive_failures = 0,
                                !.last_failure_time = NoTime]]
    ELSE [open |-> FALSE, cb |-> c]

\* The proactive spacing slept before the first attempt.
adaptive_wait(c, t) ==
    LET delay == ApiDelay + c.consecutive_failures * FailureDelay IN
    IF c.last_api_call_time # NoTime /\ t - c.last_api_call_time < delay
    THEN delay - (t - c.last_api_call_time)
    ELSE 0

\* Seconds slept by the retry loop after k transient failures:
\* 30 + 60 + ... + 30 * 2^(k-1).
retry_sleep(k) == RetryBaseWait * ((2 ^ k) - 1)

\* What the generation client does in one _make_api_call: `fails` transient
\* (overloaded / 529 / rate) errors, then success ("ok") or a non-transient
\* error ("fatal"); with fails = MaxRetries every attempt is transient.
\* The model draws the number of transient failures from the ends of the
\* range: none, one, all attempts but the last, all attempts.
ApiOutcomes ==
    [fails : {0, 1, MaxRetries - 1}, final : {"ok", "fatal"}]
        \cup {[fails |-> MaxRetries, final |-> "fatal"]}

\* Mutant: every failed attempt counts as a consecutive failure.
make_api_call_counts_attempts(c, t, o) ==
    LET chk == check_circuit_breaker(c, t) IN
    IF chk.open
    THEN [cb |-> c, now |-> t, result |-> "open", invocations |-> 0,
          waits |-> <<>>]
    ELSE LET c1 == chk.cb
             t1 == t + adaptive_wait(c1, t)
         IN  IF o.fails >= MaxRetries
             THEN LET t2 == t1 + retry_sleep(MaxRetries) IN
                  [cb |-> [c1 EXCEPT !.consecutive_failures = @ + MaxRetries,
                                     !.last_failure_time = t2],
                   now |-> t2, result |-> "overloaded", invocations |-> MaxRetries,
                   waits |-> <<>>]
             ELSE LET t2 == t1 + retry_sleep(o.fails) IN
                  IF o.final = "ok"
                  THEN [cb |-> [consecutive_failures |-> 0,
                                last_failure_time |-> NoTime,
                                last_api_call_time |-> t2],
                        now |-> t2, result |-> "ok", invocations |-> o.fails + 1,
                        waits |-> <<>>]
                  ELSE [cb |-> c1, now |-> t2, result |-> "fatal",
                        invocations |-> o.fails + 1,
                        waits |-> <<>>]

\* Mutant: the loop allows one attempt more.
attempts_exhausted_late(attempt) == attempt > MaxRetries

\* for attempt in range(max_retries): the loop is over.
attempts_exhausted(attempt) == attempt >= MaxRetries

\* The retry loop of _make_api_call from iteration `attempt` on, started at
\* time t: the clock when the loop is left, how it is left ("overloaded":
\* past the last iteration), the invocations of the client and the sleeps
\* made, in order.
RECURSIVE retry_loop(_, _, _)
retry_loop(attempt, t, o) ==
    IF attempts_exhausted(attempt)
    THEN [now |-> t, result |-> "overloaded", invocations |-> 0, waits |-> <<>>]
    ELSE IF attempt < o.fails
    THEN LET wait_time == RetryBaseWait * (2 ^ attempt)
             r == retry_loop(attempt + 1, t + wait_time, o)
         IN  [r EXCEPT !.invocations = @ + 1, !.waits = <<wait_time>> \o @]
    ELSE [now |-> t, result |-> o.final, invocations |-> 1, waits |-> <<>>]

\* Mutant: a success leaves the failure count and time as they were.
on_success_keeps_count(c, t) == [c EXCEPT !.last_api_call_time = t]

\* The attempt succeeded: the circuit breaker is reset and the time of the
\* call kept.
on_success(c, t) ==
    [consecutive_failures |-> 0, last_failure_time |-> NoTime,
     last_api_call_time |-> t]

\* Mutant: a non-transient error is counted as a failure of the breaker.
on_fatal_counts(c, t) ==
    [c EXCEPT !.consecutive_failures = @ + 1, !.last_failure_time = t]

\* The branch of _make_api_call for an error that is not transient: the
\* error is logged and raised again, the breaker's fields are not assigned.
on_fatal(c, t) == c

\* _make_api_call: the state and clock after the call, how it ended, the
\* number of invocations of the generation client and the sleeps of the
\* retry loop.
make_api_call(c, t, o) ==
    LET chk == check_circuit_breaker(c, t) IN
    IF chk.open
    THEN [cb |-> c, now |-> t, result |-> "open", invocations |-> 0,
          waits |-> <<>>]
    ELSE LET c1 == chk.cb
             t1 == t + adaptive_wait(c1, t)
             r == retry_loop(0, t1, o)
         IN  IF r.result = "overloaded"
             THEN [cb |-> [c1 EXCEPT !.consecutive_failures = @ + 1,
                                     !.last_failure_time = r.now],
                   now |-> r.now, result |-> "overloaded",
                   invocations |-> r.invocations, waits |-> r.waits]
             ELSE IF r.result = "ok"
             THEN [cb |-> on_success(c1, r.now),
                   now |-> r.now, result |-> "ok",
                   invocations |-> r.invocations, waits |-> r.waits]
             ELSE [cb |-> on_fatal(c1, r.now), now |-> r.now, result |-> "fatal",
                   invocations |-> r.invocations, waits |-> r.waits]

(***************************************************************************)
(* The two stores                                                           *)
(***************************************************************************)
VideoIds == {"A", "B"}

\* A page of the Notion database. kind "playlist": the Video URL holds
\* "list="; vid is then the playlist id. status "New" also stands for an
\* empty Status. error is the Error property, summary_page the "Summary
\* Page" property ("none": never written).
VideoPage(v, st) ==
    [kind |-> "video", vid |-> v, status |-> st, error |-> "none",
     summary_page |-> "none"]
PlaylistPage(pl, st) ==
    [kind |-> "playlist", vid |-> pl, status |-> st, error |-> "none",
     summary_page |-> "none"]

\* A row of processed_videos; exists = FALSE: no row for the id.
NoRow == [exists |-> FALSE, transcript_extracted |-> FALSE,
          summary_generated |-> FALSE, notion_page_created |-> FALSE,
          notion_page_id |-> "none", error_message |-> "none"]

EmptyDb == [v \in VideoIds |-> NoRow]

NoArtifacts == [pages |-> {}, backups |-> {}, summaries |-> {}]

\* NotionDatabaseClient.update_video_status: the write, or nothing when the
\* API call fails (the exception is logged and False returned).
update_video_status(n, p, status, err, ok) ==
    IF ok
    THEN [n EXCEPT ![p].status = status,
                   ![p].error = IF err = "none" THEN @ ELSE err]
    ELSE n

\* Database.is_video_processed
is_video_processed(d, v) == d[v].exists /\ d[v].notion_page_created

\* Database.add_processed_video with the transcript data of _get_transcript:
\* a new row, or the existing row with transcript_extracted set.
add_processed_video(d, v) ==
    IF d[v].exists
    THEN [d EXCEPT ![v].transcript_extracted = TRUE]
    ELSE [d EXCEPT ![v] = [NoRow EXCEPT !.exists = TRUE,
                                        !.transcript_extracted = TRUE]]

\* Database.update_video_status(error_message=...): only an existing row.
db_set_error(d, v, msg) ==
    IF d[v].exists THEN [d EXCEPT ![v].error_message = msg] ELSE d

\* Mutant: the final update of the row leaves notion_page_created alone.
db_set_done_keeps_flag(d, v, notionSuccess) ==
    IF d[v].exists
    THEN [d EXCEPT ![v].summary_generated = TRUE]
    ELSE d

\* Database.update_video_status(summary_generated=True, notion_page_created=..)
db_set_done(d, v, notionSuccess) ==
    IF d[v].exists
    THEN [d EXCEPT ![v].summary_generated = TRUE,
                   ![v].notion_page_created = notionSuccess]
    ELSE d

\* MarkdownBackup._create_markdown_content: the file holds the title, the
\* video id, the YouTube URL built from the id, and the summary.
backup_file(v) == [video_id |-> v, title |-> v, url |-> v, summary |-> v]

(***************************************************************************)
(* VideoProcessor.process_single_video                                      *)
(***************************************************************************)
\* The state one invocation works on, and what it is observed to do.
NoObs == [contentCalled |-> FALSE, denied |-> "none", genInvocations |-> 0,
          generated |-> FALSE, pageCreated |-> FALSE, backupWritten |-> FALSE,
          message |-> "none", errorWritten |-> FALSE, claimed |-> FALSE]

World(t, ev, r, f, c, n, d, a) ==
    [now |-> t, events |-> ev, rl |-> r, file |-> f, cb |-> c, notion |-> n,
     db |-> d, artifacts |-> a, obs |-> NoObs]

\* How a call of an external service can end in w: it succeeds (TRUE), or,
\* while the budget of failures lasts, it fails (FALSE).
Attempts(w) == IF w.events < MaxEvents THEN BOOLEAN ELSE {TRUE}

\* w after such a call.
spend(w, ok) == IF ok THEN w ELSE [w EXCEPT !.events = @ + 1]

\* _handle_error: status Error and the message in Notion, the message in the
\* local row, return False. Database.update_video_status rolls back and
\* re-raises when the session fails: the exception leaves _handle_error
\* (raised).
handle_error(w, p, msg) ==
    UNION {
        LET w1 == [spend(w, ok) EXCEPT
                      !.notion = update_video_status(@, p, "Error", msg, ok),
                      !.obs.message = msg,
                      !.obs.errorWritten = ok]
        IN  { IF dbOk
              THEN [world |-> [w1 EXCEPT !.db = db_set_error(@, w.notion[p].vid, msg)],
                    result |-> FALSE, raised |-> FALSE]
              ELSE [world |-> spend(w1, FALSE), result |-> FALSE, raised |-> TRUE]
              : dbOk \in Attempts(w1) }
        : ok \in Attempts(w) }

\* _handle_error called inside the try block of process_single_video: an
\* exception it raises is caught by the except clause, which calls
\* _handle_error again with the text of the exception.
handle_error_in_try(w, p, msg) ==
    UNION { IF r.raised THEN handle_error(r.world, p, "database") ELSE {r}
            : r \in handle_error(w, p, msg) }

\* The generation client's behaviour drawn for the parts of one summary:
\* success at once, a non-transient error, every attempt overloaded.
SummaryOutcomes ==
    {[fails |-> 0, final |-> "ok"], [fails |-> 0, final |-> "fatal"],
     [fails |-> MaxRetries, final |-> "fatal"]}

\* generate_comprehensive_summary: the parts in turn, each one
\* _make_api_call; the first call that raises ends the summary.
RECURSIVE generate_parts(_, _)
generate_parts(w, k) ==
    IF k = 0 THEN {[world |-> w, ok |-> TRUE, msg |-> "none"]}
    ELSE UNION {
        LET m == make_api_call(w.cb, w.now, o)
            w1 == [w EXCEPT !.cb = m.cb, !.now = m.now,
                            !.obs.genInvocations = @ + m.invocations]
        IN  IF m.result = "ok" THEN generate_parts(w1, k - 1)
            ELSE {[world |-> w1, ok |-> FALSE, msg |-> m.result]}
        : o \in SummaryOutcomes }

\* _generate_summary: the parts, then _save_markdown, which writes
\* summaries/<id>_<title>.md or raises.
generate_summary(w, v) ==
    UNION {
        IF g.ok
        THEN { IF ok
               THEN [world |-> [g.world EXCEPT !.artifacts.summaries = @ \cup {v},
                                               !.obs.generated = TRUE],
                     ok |-> TRUE, msg |-> "none"]
               ELSE [world |-> spend(g.world, FALSE), ok |-> FALSE, msg |-> "io"]
               : ok \in Attempts(g.world) }
        ELSE {g}
        : g \in generate_parts(w, SummaryParts) }

\* _get_transcript: the cached branch calls Database.get_processed_video_dict,
\* which Database does not define (AttributeError); otherwise the
\* rate-limited extraction, cached in the local row when it yields text.
\* The cache file is only read at start-up; its writes succeed here.
\* add_processed_video rolls back and re-raises when the session fails.
get_transcript(w, v, force) ==
    IF ~force /\ is_video_processed(w.db, v)
    THEN {[world |-> w, transcript |-> "none", raised |-> TRUE,
           msg |-> "attribute"]}
    ELSE UNION {
           LET e == extract_transcript(w.rl, w.file, w.now, outcome, TRUE)
               w1 == [w EXCEPT !.rl = e.data, !.file = e.file, !.now = e.now,
                               !.obs.contentCalled = e.called,
                               !.obs.denied = IF e.called THEN "none" ELSE e.reason]
           IN  IF e.result = "text"
               THEN { IF dbOk
                      THEN [world |-> [w1 EXCEPT !.db = add_processed_video(@, v)],
                            transcript |-> e.result, raised |-> FALSE,
                            msg |-> "none"]
                      ELSE [world |-> spend(w1, FALSE), transcript |-> "none",
                            raised |-> TRUE, msg |-> "database"]
                      : dbOk \in Attempts(w1) }
               ELSE { [world |-> w1, transcript |-> e.result, raised |-> FALSE,
                       msg |-> "none"] }
           : outcome \in FetchOutcomes }

\* _create_summary_page: the Notion summary page, or the markdown backup, or
\* (the backup failing too) nothing; True only for the Notion page.
create_summary_page(w, v) ==
    UNION {
        IF pageOk
        THEN { [world |-> [w EXCEPT !.artifacts.pages = @ \cup {v},
                                    !.obs.pageCreated = TRUE],
                success |-> TRUE] }
        ELSE { [world |-> IF backupOk
                          THEN [spend(w, FALSE) EXCEPT
                                   !.artifacts.backups = @ \cup {backup_file(v)},
                                   !.obs.backupWritten = TRUE]
                          ELSE spend(spend(w, FALSE), FALSE),
                success |-> FALSE]
               : backupOk \in Attempts(spend(w, FALSE)) }
        : pageOk \in Attempts(w) }

\* _finalize_processing: status Completed in Notion, the flags in the row.
\* When the update of the row raises, the except clause of
\* process_single_video handles it.
finalize_processing(w, p, v, notionSuccess) ==
    UNION {
        LET w1 == [spend(w, ok) EXCEPT
                      !.notion = update_video_status(@, p, "Completed", "none", ok)]
        IN  UNION { IF dbOk
                    THEN { [world |-> [w1 EXCEPT !.db = db_set_done(@, v, notionSuccess)],
                            result |-> TRUE, raised |-> FALSE] }
                    ELSE handle_error(spend(w1, FALSE), p, "database")
                    : dbOk \in Attempts(w1) }
        : ok \in Attempts(w) }

\* Steps 3 to 5, after a transcript was obtained.
summarize_and_store(w, p, v) ==
    UNION {
        IF g.ok
        THEN UNION { finalize_processing(c.world, p, v, c.success)
                     : c \in create_summary_page(g.world, v) }
        ELSE handle_error(g.world, p, g.msg)
        : g \in generate_summary(w, v) }

\* Step 2 onwards, after the video details were fetched.
transcribe_and_summarize(w, p, v, force) ==
    UNION {
        IF t.raised THEN handle_error(t.world, p, t.msg)
        ELSE IF t.transcript # "text"
        THEN handle_error_in_try(t.world, p, "No transcript available")
        ELSE summarize_and_store(t.world, p, v)
        : t \in get_transcript(w, v, force) }

\* The first statement of process_single_video: Status is set to Processing,
\* whatever the page holds; the write is accepted or lost.
claim(w, p) ==
    { [spend(w, ok) EXCEPT
          !.notion = update_video_status(@, p, "Processing", "none", ok),
          !.obs.claimed = ok]
      : ok \in Attempts(w) }

\* process_single_video after that write: the details, then step 2 onwards.
after_claim(w1, p, force) ==
    UNION { IF details
            THEN transcribe_and_summarize(w1, p, w1.notion[p].vid, force)
            ELSE handle_error_in_try(spend(w1, FALSE), p,
                                     "Could not fetch video details")
            : details \in Attempts(w1) }

\* process_single_video: every way one invocation on page p can end, as the
\* state it leaves and the value it returns.
process_single_video(w, p, force) ==
    UNION { after_claim(w1, p, force) : w1 \in claim(w, p) }

(***************************************************************************)
(* Queries of the Notion database and playlist expansion                    *)
(***************************************************************************)
\* The page ids (positions) of n, in creation order.
PageIds(n) == [i \in 1 .. Len(n) |-> i]

\* is_playlist_url on the page's Video URL: the URL names a playlist.
is_playlist_url(page) == page.kind = "playlist"

\* Mutant: the query returns every page twice.
get_unprocessed_videos_repeated(n) ==
    SelectSeq(PageIds(n), LAMBDA p : ~is_playlist_url(n[p]) /\ n[p].status # "Completed")
      \o SelectSeq(PageIds(n), LAMBDA p : ~is_playlist_url(n[p]) /\ n[p].status # "Completed")

\* get_unprocessed_videos(expand_playlists=False): Status is not Completed
\* (or is empty), oldest first; playlist URLs are skipped.
get_unprocessed_videos(n) ==
    SelectSeq(PageIds(n), LAMBDA p : ~is_playlist_url(n[p]) /\ n[p].status # "Completed")

\* get_processed_videos: Status equals Completed.
get_processed_videos(n) ==
    SelectSeq(PageIds(n), LAMBDA p : n[p].kind = "video" /\ n[p].status = "Completed")

\* Mutant: the scan selects every playlist URL, whatever its status.
playlists_to_expand_unfiltered(n) ==
    SelectSeq(PageIds(n), LAMBDA p : n[p].kind = "playlist")

\* The query of _check_and_expand_playlists: the URL contains "list=" and
\* Status is not Playlist Expanded (or is empty).
playlists_to_expand(n) ==
    SelectSeq(PageIds(n), LAMBDA p : n[p].kind = "playlist"
                              /\ n[p].status # "Playlist Expanded")

\* all_existing_ids of add_videos_to_notion.
all_existing_ids(n) ==
    { n[get_unprocessed_videos(n)[i]].vid : i \in 1 .. Len(get_unprocessed_videos(n)) }
      \cup { n[get_processed_videos(n)[i]].vid : i \in 1 .. Len(get_processed_videos(n)) }

\* The loop of add_videos_to_notion over the fetched videos: a video whose
\* id is in `existing` is skipped, the others get a page with status New
\* when create_page succeeds (oks); `existing` is computed once, before the
\* loop.
RECURSIVE add_videos(_, _, _, _)
add_videos(n, existing, videos, oks) ==
    IF videos = <<>> THEN n
    ELSE LET v == Head(videos)
             n1 == IF v \notin existing /\ Head(oks)
                   THEN Append(n, VideoPage(v, "New"))
                   ELSE n
         IN  add_videos(n1, existing, Tail(videos), Tail(oks))

add_videos_to_notion(n, videos, oks) ==
    add_videos(n, all_existing_ids(n), videos, oks)

\* What the YouTube API returns for a playlist: an error, or its videos.
PlaylistFetches ==
    {[ok |-> FALSE, videos |-> <<>>]}
      \cup {[ok |-> TRUE, videos |-> vs] :
              vs \in UNION {[1 .. k -> VideoIds] : k \in 0 .. MaxPlaylistLen}}

\* process_playlist: fails when the fetch raises or yields no video;
\* otherwise adds the first PlaylistCap videos.
process_playlist(n, fetch, oks) ==
    IF ~fetch.ok \/ fetch.videos = <<>>
    THEN [notion |-> n, success |-> FALSE, videos |-> <<>>]
    ELSE LET videos == SubSeq(fetch.videos, 1, Min(Len(fetch.videos), PlaylistCap))
         IN  [notion |-> add_videos_to_notion(n, videos, oks),
              success |-> TRUE, videos |-> videos]

\* The settings of config.py that the loop over the batch reads, with their
\* defaults; each can be set in the environment.
DefaultSettings ==
    [video_processing_delay |-> VideoProcessingDelay,
     error_backoff_multiplier |-> ErrorBackoffMultiplier,
     max_processing_delay |-> MaxProcessingDelay]

\* The delay computed after a video that is not the last of its batch, from
\* the settings st and the errors counted so far.
processing_delay(st, errors) ==
    IF errors = 0 THEN st.video_processing_delay
    ELSE IF errors <= 1 THEN st.video_processing_delay * 2
    ELSE IF errors <= 2 THEN st.video_processing_delay * 3
    ELSE Min(st.video_processing_delay * 5 + errors * st.error_backoff_multiplier,
             st.max_processing_delay)

\* Mutant: the delay is taken one tier up.
inter_item_delay_next_tier(errors) == processing_delay(DefaultSettings, errors + 1)

\* The delay slept between two videos of a pass, under the default settings.
inter_item_delay(errors) == processing_delay(DefaultSettings, errors)

(***************************************************************************)
(* Rate limiter: initial state and actions                                  *)
(***************************************************************************)
\* kind: the operation; reason: the limiter's reason ("none" when admitted
\* at once); admitted: the check let the caller through; called: the
\* Content Source was invoked; recorded: record_request ran; close: the
\* check came under the minimum delay after the previous check; recent: it
\* came under the minimum delay after the last recorded request;
\* invocations: calls of the generation client (client.messages.create).
\* No pass in progress. force is the --reprocess flag of the run.
IdlePass == [pc |-> "idle", playlists |-> <<>>, batch |-> <<>>, idx |-> 0,
             processed |-> 0, errors |-> 0, skipped |-> 0, force |-> FALSE]

NoProc == [page |-> 0, force |-> FALSE, before |-> "none", dbSame |-> TRUE,
           result |-> FALSE, raised |-> FALSE, inPass |-> FALSE,
           aborted |-> FALSE, countedError |-> FALSE, delay |-> 0,
           obs |-> NoObs]

NoExpand == [page |-> 0, success |-> FALSE, members |-> <<>>, known |-> {},
             before |-> 0, marked |-> FALSE]

NoOp == [kind |-> "init", reason |-> "none", admitted |-> FALSE,
         called |-> FALSE, recorded |-> FALSE, close |-> FALSE, recent |-> FALSE,
         invocations |-> 0, success |-> FALSE, fails |-> 0, waits |-> <<>>,
         returned |-> FALSE]

\* main() has not been entered. mode: the command line (--playlist, --once,
\* --once --interval, neither); pc: "working" in the try block, "loop" in
\* the scheduler's loop, "exited"; running, jobs: TranscriptScheduler.running
\* and the jobs registered with schedule; closed: processor.close() ran;
\* exit: the exit code; cause, looped: how main was left and whether the
\* scheduler's loop had been entered; settings: the configuration read from
\* the environment.
NoMain == [mode |-> "none", pc |-> "none", running |-> FALSE, jobs |-> 0,
           closed |-> FALSE, exit |-> -1, cause |-> "none",
           looped |-> FALSE, settings |-> DefaultSettings]

\* The callers of the limiter: threads sharing one RateLimiter object.
Threads == {1, 2}

\* A second instance of the program that has not started. pc: "fetched"
\* with the batch of its query in hand, "claimed" after its write of
\* Processing on the page, "done" after the rest of process_single_video;
\* rl, cb: its own RateLimiter and MultiPartSummarizer; runsAtClaim: the
\* invocations the first instance had made when the page was claimed; obs:
\* what its process_single_video was observed to do.
NoSecond ==
    [pc |-> "none", batch |-> <<>>, page |-> 0, rl |-> EmptyData,
     cb |-> NewSummarizer, runsAtClaim |-> 0, obs |-> NoObs, result |-> FALSE]

\* No concurrent caller is at work. second: the second instance; pc, wake: per thread, whether it stands
\* between an admitted check and its record_request, and the time its sleep
\* in wait_if_needed ends; overlapped: a check was made while another
\* thread stood between its check and its record.
NoPeers ==
    [pc |-> [t \in Threads |-> "idle"], wake |-> [t \in Threads |-> NoTime],
     overlapped |-> FALSE, second |-> NoSecond]

InitRL ==
    /\ now = 0
    /\ events = 0
    /\ rl = EmptyData
    /\ cacheFile = [exists |-> FALSE, data |-> EmptyData]
    /\ lastCheck = NoTime
    /\ lastOp = NoOp
    /\ cb = NewSummarizer
    /\ apiCalls = 0
    /\ notion = <<>>
    /\ db = EmptyDb
    /\ artifacts = NoArtifacts
    /\ pass = IdlePass
    /\ runs = 0
    /\ lastProc = NoProc
    /\ lastExpand = NoExpand
    /\ main = NoMain
    /\ peers = NoPeers

\* Time passes between operations.
Tick ==
    /\ events < MaxEvents
    /\ \E d \in TickSteps : now' = now + d
    /\ events' = events + 1
    /\ lastOp' = [NoOp EXCEPT !.kind = "tick"]
    /\ UNCHANGED <<rlVars, cbVars, procVars>>

\* One call of extract_transcript by the single caller.
ExtractTranscript ==
    \E outcome \in FetchOutcomes, saveOk \in BOOLEAN :
        LET e == extract_transcript(rl, cacheFile, now, outcome, saveOk) IN
        /\ (saveOk \/ (e.recorded /\ events < MaxEvents))
        /\ events' = IF saveOk THEN events ELSE events + 1
        /\ rl' = e.data
        /\ cacheFile' = e.file
        /\ now' = e.now
        /\ lastOp' = [NoOp EXCEPT !.kind = "extract", !.reason = e.reason,
                                  !.admitted = e.called, !.called = e.called,
                                  !.recorded = e.recorded,
                                  !.returned = (e.result # "none")]
        /\ UNCHANGED <<lastCheck, cbVars, procVars>>

\* One admission check as the callers of can_make_request make it
\* (test_rate_limiter): the check, and record_request() when it is allowed.
CheckAdmission ==
    \E saveOk \in BOOLEAN :
        LET c == can_make_request(rl, now)
            r == record_request(c.data, now, TRUE)
        IN
        /\ (saveOk \/ (c.ok /\ events < MaxEvents))
        /\ events' = IF saveOk THEN events ELSE events + 1
        /\ rl' = IF c.ok THEN r ELSE c.data
        /\ cacheFile' = IF c.ok THEN save_cache(cacheFile, r, saveOk) ELSE cacheFile
        /\ lastCheck' = now
        /\ lastOp' = [NoOp EXCEPT
                        !.kind = "check", !.reason = c.reason, !.admitted = c.ok,
                        !.recorded = c.ok,
                        !.close = (lastCheck # NoTime /\ now - lastCheck < MinDelaySeconds),
                        !.recent = (rl.last_request_time # NoTime
                                      /\ now - rl.last_request_time < MinDelaySeconds)]
        /\ UNCHANGED <<now, cbVars, procVars>>

\* The process restarts: a new RateLimiter loads the cache file.
Restart ==
    /\ \E loadOk \in BOOLEAN :
          /\ (loadOk \/ events < MaxEvents)
          /\ rl' = IF loadOk THEN load_cache(cacheFile) ELSE EmptyData
          /\ events' = IF loadOk THEN events ELSE events + 1
          /\ lastOp' = [NoOp EXCEPT !.kind = "restart",
                                    !.reason = IF loadOk THEN "loaded" ELSE "defaults"]
    /\ lastCheck' = NoTime
    /\ UNCHANGED <<now, cacheFile, cbVars, procVars>>

NextRL == Tick \/ ExtractTranscript \/ CheckAdmission \/ Restart

SpecRL == InitRL /\ [][NextRL]_vars

(***************************************************************************)
(* Rate limiter: properties                                                 *)
(***************************************************************************)
DailyCount == Len(SelectSeq(rl.requests, LAMBDA r : InDayWindow(r, now)))
HourlyCount == Len(SelectSeq(rl.requests, LAMBDA r : InHourWindow(r, now)))

\* C1: over any sequence of rate-limited extract_transcript calls and
\* process restarts that reload the cache file, the number of recorded
\* request timestamps inside the 24-hour window never exceeds
\* max_requests_per_day.
C1_DailyWithinLimit == DailyCount <= MaxRequestsPerDay

\* The day's budget is full in an instance that has just reloaded the file.
C1_Witness ==
    /\ lastOp.kind = "restart"
    /\ lastOp.reason = "loaded"
    /\ DailyCount = MaxRequestsPerDay

\* C2: the number of recorded request timestamps inside the sliding
\* one-hour window never exceeds max_requests_per_hour, also after
\* wait_if_needed slept for the hourly reset and let the call proceed.
C2_HourlyWithinLimit == HourlyCount <= MaxRequestsPerHour

\* C6 (as claimed): in a sequence of admission checks each coming less than
\* the minimum delay after the previous one, every check but the first is
\* rejected.
C6_CloseChecksRejected ==
    (lastOp.kind = "check" /\ lastOp.close) => ~lastOp.admitted

\* C6 (amended): an admission check that comes less than the minimum delay
\* after the last recorded request is rejected.
C6_RecentRequestRejects ==
    (lastOp.kind = "check" /\ lastOp.recent) => ~lastOp.admitted

\* A check is turned down by the spacing rule.
C6_Witness ==
    /\ lastOp.kind = "check"
    /\ lastOp.recent
    /\ lastOp.reason = "mindelay"
    /\ ~lastOp.admitted

\* C9: when the limiter denies a fetch for an exhausted daily budget or an
\* active backoff, extract_transcript returns without invoking the Content
\* Source and without recording a request: no timestamp is added, and
\* last_request_time, consecutive_failures, backoff_until, the cache file
\* and the clock are left as they were.
C9_DenialConsumesNothing ==
    [][(lastOp'.kind = "extract" /\ lastOp'.reason \in {"daily", "backoff"})
         => /\ ~lastOp'.called
            /\ ~lastOp'.recorded
            /\ Len(rl'.requests) <= Len(rl.requests)
            /\ rl'.requests = clean_old_requests(rl.requests, now)
            /\ rl'.last_request_time = rl.last_request_time
            /\ rl'.consecutive_failures = rl.consecutive_failures
            /\ rl'.backoff_until = rl.backoff_until
            /\ cacheFile' = cacheFile
            /\ now' = now]_vars

\* A fetch is denied for an active backoff while the day's budget is spent.
C9_Witness ==
    /\ lastOp.kind = "extract"
    /\ lastOp.reason = "backoff"
    /\ ~lastOp.called
    /\ DailyCount = MaxRequestsPerDay

\* The data without the timestamps _clean_old_requests drops at time t: the
\* live instance drops them in memory without saving.
Purged(d, t) == [d EXCEPT !.requests = clean_old_requests(@, t)]

\* The cache file holds what _save_cache writes for the data of the live
\* instance: the instance saved it at its last record_request.
FileIsCurrent ==
    /\ cacheFile.exists
    /\ Purged(cacheFile.data, now)
         = Purged(save_cache(cacheFile, rl, TRUE).data, now)

InitCB == InitRL

\* One _make_api_call (one part of a summary).
MakeApiCall ==
    /\ apiCalls < MaxApiCalls
    /\ \E o \in ApiOutcomes :
          LET m == make_api_call(cb, now, o) IN
          /\ cb' = m.cb
          /\ now' = m.now
          /\ lastOp' = [NoOp EXCEPT !.kind = "api_call", !.reason = m.result,
                                    !.called = (m.invocations > 0),
                                    !.invocations = m.invocations,
                                    !.fails = o.fails, !.waits = m.waits]
    /\ apiCalls' = apiCalls + 1
    /\ UNCHANGED <<events, rlVars, procVars>>

\* The process restarts: a new MultiPartSummarizer is constructed.
RestartSummarizer ==
    /\ cb' = NewSummarizer
    /\ lastOp' = [NoOp EXCEPT !.kind = "restart"]
    /\ UNCHANGED <<now, events, apiCalls, rlVars, procVars>>

NextCB == Tick \/ MakeApiCall \/ RestartSummarizer

SpecCB == InitCB /\ [][NextCB]_vars

\* C3: once consecutive_failures has reached circuit_breaker_threshold, every
\* _make_api_call started less than circuit_breaker_timeout after
\* last_failure_time raises at once, makes no invocation of the generation
\* client and leaves the breaker and the clock as they were.
C3_OpenBreakerShortCircuits ==
    [][(/\ lastOp'.kind = "api_call"
        /\ cb.consecutive_failures >= CircuitBreakerThreshold
        /\ cb.last_failure_time # NoTime
        /\ now - cb.last_failure_time < CircuitBreakerTimeout)
         => /\ lastOp'.reason = "open"
            /\ lastOp'.invocations = 0
            /\ ~lastOp'.called
            /\ cb' = cb
            /\ now' = now]_vars

\* A call is short-circuited after three exhausted calls.
C3_Witness ==
    /\ lastOp.kind = "api_call"
    /\ lastOp.reason = "open"
    /\ lastOp.invocations = 0
    /\ cb.consecutive_failures = CircuitBreakerThreshold

\* C20: a restart of the process keeps consecutive_failures and
\* last_failure_time, and a breaker that was open before the restart is open
\* for a call made right after it.
C20_BreakerSurvivesRestart ==
    [][(lastOp'.kind = "restart" /\ check_circuit_breaker(cb, now).open)
         => /\ cb'.consecutive_failures = cb.consecutive_failures
            /\ cb'.last_failure_time = cb.last_failure_time
            /\ check_circuit_breaker(cb', now').open]_vars

(***************************************************************************)
(* VideoProcessor: initial state and actions                                *)
(***************************************************************************)
\* The processor starts at some time of day, with the request history the
\* rate limiter's cache file holds.
StartTime == Day

\* A history in which the daily budget is spent: one request in each of the
\* last MaxRequestsPerDay hours.
SpentBudget ==
    [EmptyData EXCEPT
        !.requests = [i \in 1 .. MaxRequestsPerDay |->
                        StartTime - (MaxRequestsPerDay + 1 - i) * Hour],
        !.last_request_time = StartTime - Hour]

\* The Notion database as the user filled it.
InitialStores ==
    { <<VideoPage("A", "New"), VideoPage("B", "New")>>,
      <<PlaylistPage("P", "New"), VideoPage("B", "New")>> }

\* The user entered the same video twice.
DuplicateStore == <<VideoPage("A", "New"), VideoPage("A", "New")>>

InitProc ==
    /\ now = StartTime
    /\ events = 0
    /\ rl \in {EmptyData, SpentBudget}
    /\ cacheFile = [exists |-> rl # EmptyData, data |-> rl]
    /\ lastCheck = NoTime
    /\ lastOp = NoOp
    /\ cb = NewSummarizer
    /\ apiCalls = 0
    /\ notion \in InitialStores
    /\ db = EmptyDb
    /\ artifacts = NoArtifacts
    /\ pass \in {[IdlePass EXCEPT !.force = f] : f \in BOOLEAN}
    /\ runs = 0
    /\ lastProc = NoProc
    /\ lastExpand = NoExpand
    /\ main = NoMain
    /\ peers = NoPeers

\* check_and_process_videos starts: the health check, then the query of
\* _check_and_expand_playlists.
PassBegin ==
    /\ pass.pc = "idle"
    /\ \E healthy \in BOOLEAN :
          /\ pass' = IF healthy
                     THEN [IdlePass EXCEPT !.pc = "expand", !.force = pass.force,
                                           !.playlists = playlists_to_expand(notion)]
                     ELSE [IdlePass EXCEPT !.force = pass.force]
          /\ lastOp' = [NoOp EXCEPT !.kind = "pass_begin",
                                    !.admitted = healthy]
    /\ UNCHANGED <<now, events, rlVars, cbVars, storeVars, runs, lastProc, lastExpand, main, peers>>

\* One iteration of the loop of _check_and_expand_playlists: process_playlist
\* on the entry, then the mark (Playlist Expanded, or Error).
ExpandNext ==
    /\ pass.pc = "expand"
    /\ pass.playlists # <<>>
    /\ runs < MaxRuns
    /\ LET p == Head(pass.playlists) IN
       \E fetch \in PlaylistFetches, markOk \in BOOLEAN :
       \E oks \in [1 .. Min(Len(fetch.videos), PlaylistCap) -> BOOLEAN] :
          LET r == process_playlist(notion, fetch, oks)
              failures == Cardinality({i \in DOMAIN oks : ~oks[i]})
                            + (IF fetch.ok THEN 0 ELSE 1)
                            + (IF markOk THEN 0 ELSE 1)
          IN
          /\ events + failures <= MaxEvents
          /\ events' = events + failures
          /\ notion' = update_video_status(
                          r.notion, p,
                          IF r.success THEN "Playlist Expanded" ELSE "Error",
                          IF r.success THEN "none" ELSE "Playlist expansion failed",
                          markOk)
          /\ lastExpand' = [page |-> p, success |-> r.success,
                            members |-> r.videos,
                            known |-> all_existing_ids(notion),
                            before |-> Len(notion),
                            marked |-> r.success /\ markOk]
    /\ pass' = [pass EXCEPT !.playlists = Tail(@)]
    /\ runs' = runs + 1
    /\ lastOp' = [NoOp EXCEPT !.kind = "expand"]
    /\ UNCHANGED <<now, rlVars, cbVars, db, artifacts, lastProc, main, peers>>

\* Mutant: the batch is not capped.
cap_batch_uncapped(unprocessed) == unprocessed

\* A batch of more than BatchCap videos is cut to the first BatchCap.
cap_batch(unprocessed) ==
    IF Len(unprocessed) > BatchCap THEN SubSeq(unprocessed, 1, BatchCap)
    ELSE unprocessed

\* Mutant: the query for the batch does not wait for the expansions.
expansions_finished_early(entries) == TRUE

\* _check_and_expand_playlists has returned: its loop has gone through every
\* entry it found.
expansions_finished(entries) == entries = <<>>

\* The playlists are done: get_unprocessed_videos and the cap of the batch.
PassFetch ==
    /\ pass.pc = "expand"
    /\ expansions_finished(pass.playlists)
    /\ LET unprocessed == get_unprocessed_videos(notion)
           batch == cap_batch(unprocessed)
       IN  pass' = IF batch = <<>> THEN [IdlePass EXCEPT !.force = pass.force]
                   ELSE [pass EXCEPT !.pc = "items", !.batch = batch, !.idx = 1]
    /\ lastOp' = [NoOp EXCEPT !.kind = "pass_fetch"]
    /\ UNCHANGED <<now, events, rlVars, cbVars, storeVars, runs, lastProc, lastExpand, main, peers>>

\* The effect of one process_single_video that ended as r, and the clock t
\* after it.
Ran(r, p, force, inPass, t, aborted) ==
    /\ now' = t
    /\ events' = r.world.events
    /\ rl' = r.world.rl
    /\ cacheFile' = r.world.file
    /\ cb' = r.world.cb
    /\ notion' = r.world.notion
    /\ db' = r.world.db
    /\ artifacts' = r.world.artifacts
    /\ runs' = runs + 1
    /\ lastProc' = [page |-> p, force |-> force, before |-> notion[p].status,
                    dbSame |-> (r.world.db = db), result |-> r.result,
                    raised |-> r.raised, inPass |-> inPass, aborted |-> aborted,
                    countedError |-> inPass /\ ~r.result /\ ~r.raised,
                    delay |-> t - r.world.now,
                    obs |-> r.world.obs]
    /\ lastOp' = [NoOp EXCEPT !.kind = "process",
                              !.reason = r.world.obs.denied,
                              !.called = r.world.obs.contentCalled,
                              !.invocations = r.world.obs.genInvocations]
    /\ UNCHANGED <<lastCheck, apiCalls, lastExpand, main, peers>>

\* Mutant: the loop stops only after a second error.
fail_fast_after_two(errors, remaining) == errors >= 2 /\ remaining > 0

\* The fail-fast break at the end of an iteration: an error was counted and
\* videos remain.
fail_fast(errors, remaining) == errors >= 1 /\ remaining > 0

\* One iteration of the loop of check_and_process_videos: the video, the
\* counters, the delay before the next video, the fail-fast break. An
\* exception that leaves process_single_video is re-raised by
\* check_and_process_videos and by the scheduler: the process stops.
ProcessNext ==
    /\ pass.pc = "items"
    /\ runs < MaxRuns
    /\ LET p == pass.batch[pass.idx]
           last == pass.idx = Len(pass.batch)
       IN  \E r \in process_single_video(
                       World(now, events, rl, cacheFile, cb, notion, db, artifacts),
                       p, pass.force) :
              LET errors == pass.errors + (IF r.result \/ r.raised THEN 0 ELSE 1)
                  processed == pass.processed + (IF r.result THEN 1 ELSE 0)
                  aborted == ~r.raised
                               /\ fail_fast(errors, Len(pass.batch) - pass.idx)
                  t == r.world.now + (IF last \/ r.raised THEN 0
                                      ELSE inter_item_delay(errors))
              IN  /\ Ran(r, p, pass.force, TRUE, t, aborted)
                  /\ pass' = [pass EXCEPT
                                !.pc = IF r.raised THEN "stopped"
                                       ELSE IF last \/ aborted THEN "idle"
                                       ELSE "items",
                                !.idx = IF last \/ aborted \/ r.raised THEN @ ELSE @ + 1,
                                !.processed = processed,
                                !.errors = errors]

\* process_single_video called with a record of the database fetched
\* earlier; the page may have changed since the record was read.
ProcessSingleVideo ==
    /\ pass.pc = "idle"
    /\ runs < MaxRuns
    /\ \E p \in 1 .. Len(notion) :
          /\ notion[p].kind = "video"
          /\ \E r \in process_single_video(
                         World(now, events, rl, cacheFile, cb, notion, db, artifacts),
                         p, pass.force) :
                /\ Ran(r, p, pass.force, FALSE, r.world.now, FALSE)
                /\ pass' = IF r.raised THEN [pass EXCEPT !.pc = "stopped"]
                           ELSE pass

\* The program is started again after an exception stopped it: a new
\* RateLimiter on the cache file, a new MultiPartSummarizer.
StartProcess ==
    /\ pass.pc = "stopped"
    /\ pass' = [IdlePass EXCEPT !.force = pass.force]
    /\ rl' = load_cache(cacheFile)
    /\ cb' = NewSummarizer
    /\ lastOp' = [NoOp EXCEPT !.kind = "start"]
    /\ UNCHANGED <<now, events, cacheFile, lastCheck, apiCalls, storeVars, runs,
                   lastProc, lastExpand, main, peers>>

\* Runs that call process_single_video on the records they hold. The clock
\* advances by the sleeps the calls make.
NextProc == ProcessSingleVideo \/ StartProcess

SpecProc == InitProc /\ [][NextProc]_vars

\* Runs of check_and_process_videos, as the scheduler makes them.
InitBatch ==
    /\ now = StartTime
    /\ events = 0
    /\ rl \in {EmptyData, SpentBudget}
    /\ cacheFile = [exists |-> rl # EmptyData, data |-> rl]
    /\ lastCheck = NoTime
    /\ lastOp = NoOp
    /\ cb = NewSummarizer
    /\ apiCalls = 0
    /\ notion \in InitialStores \cup {DuplicateStore}
    /\ db = EmptyDb
    /\ artifacts = NoArtifacts
    /\ pass \in {[IdlePass EXCEPT !.force = f] : f \in BOOLEAN}
    /\ runs = 0
    /\ lastProc = NoProc
    /\ lastExpand = NoExpand
    /\ main = NoMain
    /\ peers = NoPeers

NextBatch == StartProcess \/ PassBegin \/ ExpandNext \/ PassFetch \/ ProcessNext

SpecBatch == InitBatch /\ [][NextBatch]_vars

(***************************************************************************)
(* Properties of process_single_video                                       *)
(***************************************************************************)
\* C4: process_single_video without the force flag on a page whose status is
\* already Completed is a no-op: no call of the transcript source, no call of
\* the generation client, the page's status and the local row unchanged.
C4_CompletedIsNoOp ==
    (/\ lastOp.kind = "process"
     /\ lastProc.before = "Completed"
     /\ ~lastProc.force)
      => /\ ~lastProc.obs.contentCalled
         /\ lastProc.obs.genInvocations = 0
         /\ notion[lastProc.page].status = "Completed"
         /\ lastProc.dbSame

\* C5: when the Notion summary page cannot be created, the video still ends
\* Completed and markdown_backups/ holds a file with the summary, the video
\* id, the title and the link; and no page is Completed while its summary is
\* neither in a Notion summary page nor in such a file.
C5_FallbackKeepsSummary ==
    /\ (/\ lastOp.kind = "process"
        /\ lastProc.obs.generated
        /\ ~lastProc.obs.pageCreated)
         => /\ notion[lastProc.page].status = "Completed"
            /\ backup_file(notion[lastProc.page].vid) \in artifacts.backups
    /\ \A p \in 1 .. Len(notion) :
          (notion[p].kind = "video" /\ notion[p].status = "Completed")
            => \/ notion[p].vid \in artifacts.pages
               \/ backup_file(notion[p].vid) \in artifacts.backups

C12_HappyPathCompletes ==
    [][(/\ lastOp'.kind = "process"
        /\ ~db[notion[lastProc'.page].vid].exists
        /\ lastProc'.obs.contentCalled
        /\ lastProc'.obs.generated
        /\ lastProc'.obs.pageCreated
        /\ events' = events)
         => /\ lastProc'.result
            /\ notion'[lastProc'.page].status = "Completed"
            /\ db'[notion[lastProc'.page].vid].exists
            /\ db'[notion[lastProc'.page].vid].transcript_extracted
            /\ db'[notion[lastProc'.page].vid].summary_generated
            /\ db'[notion[lastProc'.page].vid].notion_page_created]_vars

\* A video with no local row is processed with every step succeeding.
C12_Witness ==
    /\ lastOp.kind = "process"
    /\ runs = 1
    /\ events = 0
    /\ lastProc.result
    /\ lastProc.obs.contentCalled
    /\ lastProc.obs.generated
    /\ lastProc.obs.pageCreated
    /\ notion[lastProc.page].status = "Completed"
    /\ db[notion[lastProc.page].vid].notion_page_created

\* C14: when process_single_video ends a video in Error (the Error write
\* accepted by Notion), the message is in the page's Error property and in
\* the local row of the video.
C14_ErrorInBothStores ==
    (/\ lastOp.kind = "process"
     /\ ~lastProc.result
     /\ lastProc.obs.errorWritten)
      => /\ notion[lastProc.page].status = "Error"
         /\ notion[lastProc.page].error = lastProc.obs.message
         /\ db[notion[lastProc.page].vid].exists
         /\ db[notion[lastProc.page].vid].error_message = lastProc.obs.message

(***************************************************************************)
(* Properties of check_and_process_videos                                   *)
(***************************************************************************)
\* The pages created by the last expansion for video id v.
CreatedFor(v) ==
    { p \in (lastExpand.before + 1) .. Len(notion) :
        notion[p].kind = "video" /\ notion[p].vid = v }

\* C7: a successful expansion creates exactly one page, with status New, for
\* each distinct member id that no pending or completed page carried, and
\* none for an id already known; and after an expansion no two video pages
\* carry the same id.
C7_OneRecordPerNewMember ==
    /\ (lastOp.kind = "expand" /\ lastExpand.success)
         => \A v \in VideoIds :
               /\ Cardinality(CreatedFor(v))
                    = IF /\ \E i \in 1 .. Len(lastExpand.members) :
                                lastExpand.members[i] = v
                         /\ v \notin lastExpand.known
                      THEN 1 ELSE 0
               /\ \A p \in CreatedFor(v) : notion[p].status = "New"
    /\ lastOp.kind = "expand"
         => \A p, q \in 1 .. Len(notion) :
               (/\ notion[p].kind = "video"
                /\ notion[q].kind = "video"
                /\ notion[p].vid = notion[q].vid) => p = q

\* C8: a playlist page marked Playlist Expanded keeps that status, is not
\* among the playlists a later scan selects, and is not expanded again.
C8_ExpandedIsTerminal ==
    [][\A p \in 1 .. Len(notion) :
          (notion[p].kind = "playlist" /\ notion[p].status = "Playlist Expanded")
            => /\ notion'[p].status = "Playlist Expanded"
               /\ \A i \in 1 .. Len(pass'.playlists) : pass'.playlists[i] # p
               /\ ~(lastOp'.kind = "expand" /\ lastExpand'.page = p)]_vars

\* A scan that follows the marking of a playlist selects nothing.
C8_Witness ==
    /\ lastOp.kind = "pass_begin"
    /\ lastOp.admitted
    /\ pass.pc = "expand"
    /\ pass.playlists = <<>>
    /\ lastExpand.marked
    /\ notion[lastExpand.page].status = "Playlist Expanded"

\* C10: a video of a pass whose transcript fetch the rate limiter denies for
\* a spent daily or hourly budget ends with status RateLimited, is not
\* counted as an error and does not make the pass stop.
C10_DenialIsDeferred ==
    (/\ lastOp.kind = "process"
     /\ lastProc.inPass
     /\ lastProc.obs.denied \in {"daily", "hourly"})
      => /\ notion[lastProc.page].status = "RateLimited"
         /\ ~lastProc.countedError
         /\ ~lastProc.aborted

\* C13: in passes run without the force flag a page that is Completed or
\* Error is never set to Processing again, and a Completed page keeps its
\* status.
C13_StatusNeverMovesBack ==
    [][/\ (/\ lastOp'.kind = "process"
            /\ ~lastProc'.force
            /\ lastProc'.obs.claimed)
             => notion[lastProc'.page].status \notin {"Completed", "Error"}
       /\ \A p \in 1 .. Len(notion) :
             (~pass.force /\ notion[p].status = "Completed")
               => notion'[p].status = "Completed"]_vars

\* C15: no exception leaves process_single_video, so a pass is never ended
\* by one.
C15_NoExceptionEscapes ==
    /\ ~lastProc.raised
    /\ pass.pc # "stopped"

(***************************************************************************)
(* Scheduled passes without end                                             *)
(***************************************************************************)
\* The interval between two runs of the check function is a setting
\* (CHECK_INTERVAL_HOURS, --interval); the model takes TranscriptScheduler's
\* default.
IntervalHours == 24

\* Passes after which the rate limiter's count of consecutive failed
\* fetches is this high are not followed further.
MaxLimiterFailures == 3

Max(a, b) == IF a > b THEN a ELSE b

\* The clock is read again from StartTime at the start of every scheduled
\* pass: a time t recorded before a wait of d seconds is seen d seconds
\* earlier. Every comparison the program makes with a recorded time is
\* against an age of a day at most, so an older time is kept as one day old.
seen_later(t, d) ==
    IF t = NoTime THEN NoTime ELSE Max(t - d, StartTime - Day)

limiter_seen_later(data, d) ==
    [data EXCEPT
        !.requests = [i \in DOMAIN @ |-> seen_later(@[i], d)],
        !.last_request_time = seen_later(@, d),
        !.backoff_until = seen_later(@, d)]

\* TranscriptScheduler.start: the check function has returned; the loop
\* sleeps until the job is due again, interval_hours after it last ran.
SleepUntilDue ==
    /\ pass.pc = "idle"
    /\ lastOp.kind \in {"pass_begin", "pass_fetch", "process"}
    /\ rl.consecutive_failures < MaxLimiterFailures
    /\ LET d == (now - StartTime) + IntervalHours * Hour IN
       /\ now' = StartTime
       /\ rl' = limiter_seen_later(rl, d)
       /\ cacheFile' = [cacheFile EXCEPT !.data = limiter_seen_later(@, d)]
       /\ lastCheck' = seen_later(lastCheck, d)
       /\ cb' = [cb EXCEPT !.last_failure_time = seen_later(@, d),
                           !.last_api_call_time = seen_later(@, d)]
    /\ lastOp' = [NoOp EXCEPT !.kind = "wait"]
    /\ UNCHANGED <<events, apiCalls, storeVars, pass, lastProc, lastExpand, main, peers>>

\* The sleep of a scheduler that runs for ever: the count of the runs starts
\* again with each pass.
ScheduledWait == SleepUntilDue /\ runs' = 0

\* The job is due: the scheduler calls check_and_process_videos.
ScheduledPass ==
    /\ lastOp.kind \in {"init", "wait", "start"}
    /\ PassBegin

\* The Notion API, the local database and the file system answer every call
\* in these runs; the Content Source and the generation API may fail.
InitSched ==
    /\ now = StartTime
    /\ events = MaxEvents
    /\ rl = EmptyData
    /\ cacheFile = [exists |-> FALSE, data |-> rl]
    /\ lastCheck = NoTime
    /\ lastOp = NoOp
    /\ cb = NewSummarizer
    /\ apiCalls = 0
    /\ notion \in InitialStores
    /\ db = EmptyDb
    /\ artifacts = NoArtifacts
    /\ pass \in {[IdlePass EXCEPT !.force = f] : f \in BOOLEAN}
    /\ runs = 0
    /\ lastProc = NoProc
    /\ lastExpand = NoExpand
    /\ main = NoMain
    /\ peers = NoPeers

NextSched ==
    ScheduledPass \/ ExpandNext \/ PassFetch \/ ProcessNext \/ ScheduledWait

\* The scheduler's loop keeps running: a step that can be taken is taken.
\* The next video of the batch is handed to process_single_video: the steps
\* of ProcessNext, which is enabled whenever a batch is in progress and the
\* bound on the runs allows one more.
HandNext ==
    /\ pass.pc = "items"
    /\ runs < MaxRuns
    /\ runs' = runs + 1

\* The scheduler's loop and the loop over the batch run on: each step of a
\* pass that can be taken is eventually taken.
SpecSched ==
    /\ InitSched
    /\ [][NextSched]_vars
    /\ WF_vars(ScheduledPass)
    /\ WF_vars(ExpandNext)
    /\ WF_vars(PassFetch)
    /\ WF_runs(HandNext)
    /\ WF_vars(ScheduledWait)

\* The second page of every initial database is a plain video.
Attempted(p) == lastOp.kind = "process" /\ lastProc.page = p

\* C16: when passes keep being scheduled and keep handing items to the
\* processor, the plain item on page 2, pending from the start, is
\* eventually handed to it.
C16_PendingEventuallyAttempted ==
    ([]<>(lastOp.kind = "wait") /\ []<>(lastOp.kind = "process"))
      => <>Attempted(2)

\* The videos of the batch in progress that come after the current one.
LaterItems == { pass.batch[k] : k \in pass.idx + 1 .. Len(pass.batch) }

\* C17 (as claimed): when a video of a pass ends in error and videos remain
\* in the batch,
\* the pass ends there: no later video is handed to process_single_video,
\* the page and the local row of every later video are as before, and
\* get_unprocessed_videos returns every later video again.
C17_FailFastLeavesRest ==
    [][(lastOp'.kind = "process" /\ lastProc'.countedError
          /\ LaterItems # {})
         => /\ pass'.pc = "idle"
            /\ \A q \in LaterItems :
                  /\ notion'[q] = notion[q]
                  /\ db'[notion[q].vid] = db[notion[q].vid]
                  /\ \E k \in 1 .. Len(get_unprocessed_videos(notion')) :
                        get_unprocessed_videos(notion')[k] = q]_vars

\* C17 (amended): as above, the local row being as before for every later
\* video other than the one that ended in error (the rows are kept by video
\* id, and a later page may hold the same video).
C17_FailFastLeavesOtherVideos ==
    [][(lastOp'.kind = "process" /\ lastProc'.countedError
          /\ LaterItems # {})
         => /\ pass'.pc = "idle"
            /\ \A q \in LaterItems :
                  /\ notion'[q] = notion[q]
                  /\ notion[q].vid # notion[lastProc'.page].vid
                        => db'[notion[q].vid] = db[notion[q].vid]
                  /\ \E k \in 1 .. Len(get_unprocessed_videos(notion')) :
                        get_unprocessed_videos(notion')[k] = q]_vars

\* A pass was aborted after an error on its first video, the second one
\* still new.
C17_Witness ==
    /\ lastOp.kind = "process"
    /\ lastProc.countedError
    /\ lastProc.aborted
    /\ pass.pc = "idle"
    /\ pass.idx < Len(pass.batch)
    /\ notion[pass.batch[pass.idx + 1]].status = "New"
    /\ notion[pass.batch[pass.idx + 1]].vid # notion[lastProc.page].vid

(***************************************************************************)
(* Passes over a database with more pending videos than the cap             *)
(***************************************************************************)
\* BatchCap + 1 pages, all new, on the two videos in turn.
LargeStore ==
    [i \in 1 .. BatchCap + 1 |-> VideoPage(IF i % 2 = 1 THEN "A" ELSE "B", "New")]

InitCap ==
    /\ now = StartTime
    /\ events = 0
    /\ rl \in {EmptyData, SpentBudget}
    /\ cacheFile = [exists |-> rl # EmptyData, data |-> rl]
    /\ lastCheck = NoTime
    /\ lastOp = NoOp
    /\ cb = NewSummarizer
    /\ apiCalls = 0
    /\ notion = LargeStore
    /\ db = EmptyDb
    /\ artifacts = NoArtifacts
    /\ pass \in {[IdlePass EXCEPT !.force = f] : f \in BOOLEAN}
    /\ runs = 0
    /\ lastProc = NoProc
    /\ lastExpand = NoExpand
    /\ main = NoMain
    /\ peers = NoPeers

NextCap == PassBegin \/ PassFetch \/ ProcessNext

SpecCap == InitCap /\ [][NextCap]_vars

\* The pages of the batch in progress.
BatchItems == { pass.batch[k] : k \in 1 .. Len(pass.batch) }

\* The pages get_unprocessed_videos returns on database n.
Pending(n) ==
    { get_unprocessed_videos(n)[k] : k \in 1 .. Len(get_unprocessed_videos(n)) }

\* C18: the batch of one check_and_process_videos holds at most 15 videos
\* and only videos of the batch are handed to process_single_video; the
\* page of every pending video outside the batch is left as it was, and
\* get_unprocessed_videos returns it again.
C18_CapLeavesRest ==
    [][/\ lastOp'.kind = "pass_fetch" => Len(pass'.batch) <= BatchCap
       /\ (lastOp'.kind = "process" /\ lastProc'.inPass)
            => /\ Len(pass.batch) <= BatchCap
               /\ pass.idx <= BatchCap
               /\ lastProc'.page = pass.batch[pass.idx]
               /\ \A q \in Pending(notion) \ BatchItems :
                     /\ notion'[q] = notion[q]
                     /\ q \in Pending(notion')]_vars

\* A video of a batch of 15 was processed while a sixteenth, outside the
\* batch, is pending.
C18_Witness ==
    /\ lastOp.kind = "process"
    /\ lastProc.inPass
    /\ Len(pass.batch) = BatchCap
    /\ Pending(notion) \ BatchItems # {}
    /\ \A q \in Pending(notion) \ BatchItems : notion[q] = LargeStore[q]

(***************************************************************************)
(* Cached content, fallback artifacts                                       *)
(***************************************************************************)
\* The local row of the video of page p holds content fetched by an earlier
\* invocation that did not bring the page to Completed.
CachedUnfinished(p) ==
    /\ notion[p].status # "Completed"
    /\ db[notion[p].vid].exists
    /\ db[notion[p].vid].transcript_extracted

\* C21: a non-forced invocation on an item whose content an earlier
\* invocation fetched and cached, and which did not reach Completed, makes
\* no call of the content source.
C21_CachedContentReused ==
    [][(/\ lastOp'.kind = "process"
        /\ ~lastProc'.force
        /\ CachedUnfinished(lastProc'.page))
       => ~lastProc'.obs.contentCalled]_vars

\* What the stores record about where the summary of page p is kept: the
\* "Summary Page" property of the page and notion_page_id of the local row.
\* _finalize_processing passes neither to the two update_video_status calls,
\* and the path returned by create_backup is only logged.
artifact_reference(n, d, p) == {n[p].summary_page, d[n[p].vid].notion_page_id} \ {"none"}

\* C22: when the remote artifact write failed and the fallback artifact was
\* written, the Completed item records where that artifact is stored, on the
\* page or in the local row.
C22_FallbackPathRecorded ==
    (/\ lastOp.kind = "process"
     /\ lastProc.obs.backupWritten
     /\ notion[lastProc.page].status = "Completed")
    => artifact_reference(notion, db, lastProc.page) # {}

(***************************************************************************)
(* main(): the modes of the command line and the ways out                   *)
(***************************************************************************)
Modes == {"playlist", "once", "session", "scheduler"}

\* Mutant: stop leaves the registered jobs in place.
scheduler_stop_keeps_jobs(m) == [m EXCEPT !.running = FALSE]

\* TranscriptScheduler.stop
scheduler_stop(m) == [m EXCEPT !.running = FALSE, !.jobs = 0]

\* The handlers of TranscriptScheduler.start: KeyboardInterrupt and any other
\* exception call stop(); other modes have no scheduler.
leave_start(m) == IF m.mode = "scheduler" THEN scheduler_stop(m) ELSE m

\* The finally clause of main: processor is bound, processor.close() runs,
\* and the process ends with the code (sys.exit(1) after an exception).
finally_clause(m, code, cause) ==
    [m EXCEPT !.closed = TRUE, !.pc = "exited", !.exit = code,
              !.cause = cause]

\* What main's transitions leave alone.
processorVars ==
    <<now, events, rlVars, cbVars, storeVars, pass, runs, lastProc, lastExpand,
      peers>>

\* The check function has returned to its caller.
PassOver ==
    /\ pass.pc = "idle"
    /\ lastOp.kind \in {"pass_begin", "pass_fetch", "process"}

\* check_and_process_videos is running under --once or under the scheduler.
Checking ==
    /\ main.mode \in {"once", "scheduler"}
    /\ main.pc \in {"working", "loop"}

\* VideoProcessor() was constructed; main is in its try block. The stores
\* may fail once in these runs.
InitMain ==
    /\ now = StartTime
    /\ events = MaxEvents - 1
    /\ rl = EmptyData
    /\ cacheFile = [exists |-> FALSE, data |-> rl]
    /\ lastCheck = NoTime
    /\ lastOp = NoOp
    /\ cb = NewSummarizer
    /\ apiCalls = 0
    /\ notion \in InitialStores
    /\ db = EmptyDb
    /\ artifacts = NoArtifacts
    /\ pass \in {[IdlePass EXCEPT !.force = f] : f \in BOOLEAN}
    /\ runs = 0
    /\ lastProc = NoProc
    /\ lastExpand = NoExpand
    /\ main \in {[NoMain EXCEPT !.mode = md, !.pc = "working"] : md \in Modes}
    /\ peers = NoPeers

\* --playlist: VideoProcessor.process_playlist, which catches every
\* exception, then the end of main.
MainPlaylist ==
    /\ main.mode = "playlist"
    /\ main.pc = "working"
    /\ \E fetch \in PlaylistFetches :
       \E oks \in [1 .. Min(Len(fetch.videos), PlaylistCap) -> BOOLEAN] :
          LET r == process_playlist(notion, fetch, oks)
              failures == Cardinality({i \in DOMAIN oks : ~oks[i]})
                            + (IF fetch.ok THEN 0 ELSE 1)
          IN  /\ events + failures <= MaxEvents
              /\ events' = events + failures
              /\ notion' = r.notion
    /\ lastOp' = [NoOp EXCEPT !.kind = "playlist"]
    /\ main' = finally_clause(main, 0, "return")
    /\ UNCHANGED <<now, rlVars, cbVars, db, artifacts, pass, runs, lastProc,
                   lastExpand, peers>>

\* check_and_process_videos is called: by main under --once, by
\* TranscriptScheduler.start at once and then whenever the job is due.
MainPass == Checking /\ ScheduledPass

MainExpand == Checking /\ ExpandNext

MainFetch == Checking /\ PassFetch

MainItem == Checking /\ ProcessNext

\* --once --interval: process_single_video on the records of a query.
MainSession ==
    /\ main.mode = "session"
    /\ main.pc = "working"
    /\ ProcessSingleVideo

\* TranscriptScheduler.start after the initial check: the job is registered
\* and the loop entered.
SchedulerRegister ==
    /\ main.mode = "scheduler"
    /\ main.pc = "working"
    /\ PassOver
    /\ main' = [main EXCEPT !.jobs = 1, !.running = TRUE, !.pc = "loop",
                            !.looped = TRUE]
    /\ UNCHANGED <<lastOp, processorVars>>

\* The loop of TranscriptScheduler.start sleeps until the job is due.
MainWait ==
    /\ main.pc = "loop"
    /\ SleepUntilDue
    /\ UNCHANGED runs

\* The try block of main ends: the check of --once has returned, the session
\* of --once --interval has run out of time or of videos.
MainReturn ==
    /\ main.pc = "working"
    /\ \/ main.mode = "once" /\ PassOver
       \/ main.mode = "session" /\ pass.pc = "idle"
    /\ main' = finally_clause(main, 0, "return")
    /\ UNCHANGED <<lastOp, processorVars>>

\* Ctrl+C while main works or the scheduler sleeps: TranscriptScheduler.start
\* catches KeyboardInterrupt, stops and returns; otherwise main catches it.
MainInterrupt ==
    /\ main.pc \in {"working", "loop"}
    /\ pass.pc # "stopped"
    /\ main' = finally_clause(leave_start(main), 0, "interrupt")
    /\ UNCHANGED <<lastOp, processorVars>>

\* An exception left check_and_process_videos or process_single_video:
\* TranscriptScheduler.start stops and re-raises, main logs it and calls
\* sys.exit(1).
MainException ==
    /\ main.pc \in {"working", "loop"}
    /\ pass.pc = "stopped"
    /\ main' = finally_clause(leave_start(main), 1, "exception")
    /\ UNCHANGED <<lastOp, processorVars>>

NextMain ==
    \/ MainPlaylist \/ MainPass \/ MainExpand \/ MainFetch \/ MainItem
    \/ MainSession \/ SchedulerRegister \/ MainWait \/ MainReturn
    \/ MainInterrupt \/ MainException

SpecMain == InitMain /\ [][NextMain]_vars

\* C23: whenever main has exited after VideoProcessor was constructed,
\* processor.close() has run, the scheduler's loop is stopped and no job is
\* left registered.
C23_ExitClosesAndStops ==
    main.pc = "exited" => main.closed /\ ~main.running /\ main.jobs = 0

\* main left the running scheduler loop through an exception of a pass.
C23_Witness ==
    /\ main.pc = "exited"
    /\ main.mode = "scheduler"
    /\ main.looped
    /\ main.cause = "exception"
    /\ main.exit = 1
    /\ main.closed

(***************************************************************************)
(* The order of the admission rules                                         *)
(***************************************************************************)
\* The rejection conditions of the limiter d at time t, each on its own:
\* the backoff deadline lies ahead; the requests of the last 24 hours, of
\* the last hour, have reached the cap; the last request is closer than
\* min_delay_seconds * backoff_multiplier ^ consecutive_failures.
Rejections(d, t) ==
    [backoff |-> d.backoff_until # NoTime /\ t < d.backoff_until,
     daily |-> Cardinality({i \in DOMAIN d.requests : InDayWindow(d.requests[i], t)})
                  >= MaxRequestsPerDay,
     hourly |-> Cardinality({i \in DOMAIN d.requests : InHourWindow(d.requests[i], t)})
                  >= MaxRequestsPerHour,
     mindelay |-> /\ d.last_request_time # NoTime
                  /\ t - d.last_request_time
                       < MinDelaySeconds * BackoffMultiplier ^ d.consecutive_failures]

\* The earliest condition that holds, in the order backoff, daily, hourly,
\* spacing.
EarliestRejection(c) ==
    IF c.backoff THEN "backoff"
    ELSE IF c.daily THEN "daily"
    ELSE IF c.hourly THEN "hourly"
    ELSE IF c.mindelay THEN "mindelay"
    ELSE "none"

\* C24: the reason can_make_request gives is the earliest rejection condition
\* that holds, and it admits the request exactly when none holds.
C24_EarliestReasonWins ==
    [][lastOp'.kind = "check"
       => /\ lastOp'.reason = EarliestRejection(Rejections(rl, now))
          /\ lastOp'.admitted = (EarliestRejection(Rejections(rl, now)) = "none")]_vars

\* A check was rejected for the daily cap while the hourly cap and the
\* spacing rule rejected it too.
C24_Witness ==
    /\ lastOp.kind = "check"
    /\ lastOp.reason = "daily"
    /\ Rejections(rl, now).hourly
    /\ Rejections(rl, now).mindelay

(***************************************************************************)
(* record_request on its own                                                *)
(***************************************************************************)
MaxRecorded == 8

\* The seconds between two calls of record_request.
RecordSteps == {MinDelaySeconds, Hour}

\* record_request(success) called on the limiter, as extract_transcript and
\* the limiter's other callers do after a request.
RecordRequest ==
    /\ Len(rl.requests) < MaxRecorded
    /\ \E success \in BOOLEAN, d \in RecordSteps :
          /\ now' = now + d
          /\ rl' = record_request(rl, now', success)
          /\ lastOp' = [NoOp EXCEPT !.kind = "record", !.recorded = TRUE,
                                    !.success = success]
    /\ cacheFile' = save_cache(cacheFile, rl', TRUE)
    /\ UNCHANGED <<events, lastCheck, cbVars, procVars>>

NextRec == RecordRequest

SpecRec == InitRL /\ [][NextRec]_vars

\* C25: record_request appends one timestamp; a success sets
\* consecutive_failures to 0 and clears backoff_until; a failure adds one to
\* consecutive_failures and, exactly when the new count is at least 3, sets
\* backoff_until to now + min(60, 5 * 2^(failures - 3)) minutes. The backoff
\* does not shrink from one failure to the next and is at most 60 minutes.
C25_RecordRequestUpdates ==
    [][lastOp'.kind = "record"
       => /\ rl'.requests = Append(rl.requests, now')
          /\ lastOp'.success
               => /\ rl'.consecutive_failures = 0
                  /\ rl'.backoff_until = NoTime
          /\ ~lastOp'.success
               => /\ rl'.consecutive_failures = rl.consecutive_failures + 1
                  /\ rl'.consecutive_failures >= 3
                       => /\ rl'.backoff_until
                               = now' + 60 * Min(60, 5 * 2 ^ (rl'.consecutive_failures - 3))
                          /\ rl'.backoff_until - now' <= 60 * 60
                  /\ rl'.consecutive_failures < 3
                       => rl'.backoff_until = rl.backoff_until
                  /\ rl'.consecutive_failures > 3
                       => rl'.backoff_until - now'
                            >= rl.backoff_until - rl.last_request_time]_vars

\* The seventh failure in a row: 5 * 2^4 minutes are cut to 60.
C25_Witness ==
    /\ lastOp.kind = "record"
    /\ ~lastOp.success
    /\ rl.consecutive_failures = 7
    /\ rl.backoff_until = now + 60 * 60

(***************************************************************************)
(* The retry loop of the generation call                                    *)
(***************************************************************************)
\* The sum of the elements of a sequence of numbers.
RECURSIVE SumSeq(_)
SumSeq(q) == IF q = <<>> THEN 0 ELSE Head(q) + SumSeq(Tail(q))

\* C26: one _make_api_call whose breaker is closed invokes the client at most
\* 6 times and returns; after the transient failure of attempt k (0..5) it
\* sleeps 30 * 2^k seconds, also after the last attempt; a non-transient
\* failure ends the call on its attempt, with no sleep after it.
C26_BoundedRetries ==
    [][(lastOp'.kind = "api_call" /\ lastOp'.reason # "open")
       => /\ lastOp'.invocations \in 1 .. 6
          /\ lastOp'.invocations = Min(lastOp'.fails + 1, 6)
          /\ Len(lastOp'.waits) = Min(lastOp'.fails, 6)
          /\ \A k \in 1 .. Len(lastOp'.waits) :
                lastOp'.waits[k] = 30 * 2 ^ (k - 1)
          /\ now' = now + adaptive_wait(check_circuit_breaker(cb, now).cb, now)
                        + SumSeq(lastOp'.waits)
          /\ lastOp'.reason = "overloaded" <=> lastOp'.fails >= 6
          /\ lastOp'.reason = "fatal"
               => Len(lastOp'.waits) = lastOp'.invocations - 1]_vars

\* A call that failed transiently on all six attempts.
C26_Witness ==
    /\ lastOp.kind = "api_call"
    /\ lastOp.reason = "overloaded"
    /\ lastOp.invocations = 6
    /\ lastOp.waits = <<30, 60, 120, 240, 480, 960>>

\* C27: a generation call that succeeds leaves consecutive_failures at 0 and
\* last_failure_time cleared; the count grows only by one, through a call
\* that exhausted its attempts, so the breaker opens on the last of
\* circuit_breaker_threshold exhausted calls with no success between them.
C27_SuccessResetsBreaker ==
    [][/\ (lastOp'.kind = "api_call" /\ lastOp'.reason = "ok")
            => /\ cb'.consecutive_failures = 0
               /\ cb'.last_failure_time = NoTime
       /\ cb'.consecutive_failures > cb.consecutive_failures
            => /\ lastOp'.kind = "api_call"
               /\ lastOp'.reason = "overloaded"
               /\ cb'.consecutive_failures = cb.consecutive_failures + 1
       /\ (/\ cb.consecutive_failures < CircuitBreakerThreshold
           /\ cb'.consecutive_failures >= CircuitBreakerThreshold)
            => /\ lastOp'.reason = "overloaded"
               /\ cb.consecutive_failures = CircuitBreakerThreshold - 1]_vars

\* The breaker opened on the third exhausted call after an earlier call
\* that was not exhausted.
C27_Witness ==
    /\ lastOp.kind = "api_call"
    /\ lastOp.reason = "overloaded"
    /\ cb.consecutive_failures = CircuitBreakerThreshold
    /\ apiCalls > CircuitBreakerThreshold

\* The time of the last invocation of the generation client, in a state
\* reached by a _make_api_call that made one: the clock, less the sleep that
\* followed the last transient failure of an exhausted call.
LastAttemptTime ==
    now - (IF lastOp.reason = "overloaded"
           THEN lastOp.waits[Len(lastOp.waits)] ELSE 0)

\* C28: when a _make_api_call follows another, its first attempt comes at
\* least api_delay + 10 s * consecutive_failures after the last attempt of
\* the call before it, and each of its retries as long after the attempt
\* before it.
C28_AttemptsAreSpaced ==
    [][(/\ lastOp.kind = "api_call" /\ lastOp.invocations > 0
        /\ lastOp'.kind = "api_call" /\ lastOp'.invocations > 0)
       => LET delay == ApiDelay + FailureDelay
                         * check_circuit_breaker(cb, now).cb.consecutive_failures
          IN  /\ (now' - SumSeq(lastOp'.waits)) - LastAttemptTime >= delay
              /\ \A k \in 1 .. lastOp'.invocations - 1 :
                    lastOp'.waits[k] >= delay]_vars

(***************************************************************************)
(* The claim of an item                                                     *)
(***************************************************************************)
\* C29: an invocation of process_single_video that called the content source
\* or the generation client had its write of status Processing accepted by
\* the remote store before.
C29_WorkOnlyAfterClaim ==
    [][(/\ lastOp'.kind = "process"
        /\ \/ lastProc'.obs.contentCalled
           \/ lastProc'.obs.genInvocations > 0)
       => lastProc'.obs.claimed]_vars

(***************************************************************************)
(* The delay between two videos, for the settings of the environment        *)
(***************************************************************************)
MaxDelays == 5

\* Values of VIDEO_PROCESSING_DELAY, ERROR_BACKOFF_MULTIPLIER and
\* MAX_PROCESSING_DELAY: the defaults and values around them.
SettingsChoices ==
    [video_processing_delay :
        {VideoProcessingDelay \div 2, VideoProcessingDelay,
         VideoProcessingDelay * 4, VideoProcessingDelay * 8},
     error_backoff_multiplier :
        {0, ErrorBackoffMultiplier, ErrorBackoffMultiplier * 4},
     max_processing_delay : {MaxProcessingDelay \div 2, MaxProcessingDelay}]

InitDelay ==
    /\ now = StartTime
    /\ events = 0
    /\ rl = EmptyData
    /\ cacheFile = [exists |-> FALSE, data |-> rl]
    /\ lastCheck = NoTime
    /\ lastOp = NoOp
    /\ cb = NewSummarizer
    /\ apiCalls = 0
    /\ notion \in InitialStores
    /\ db = EmptyDb
    /\ artifacts = NoArtifacts
    /\ pass = IdlePass
    /\ runs = 0
    /\ lastProc = NoProc
    /\ lastExpand = NoExpand
    /\ main \in {[NoMain EXCEPT !.settings = st] : st \in SettingsChoices}
    /\ peers = NoPeers

\* The end of an iteration of the loop of check_and_process_videos that is
\* not the last: the result of the video is counted, the delay computed from
\* the error count and slept.
SleepBetweenVideos ==
    /\ pass.idx < MaxDelays
    /\ \E result \in BOOLEAN :
          LET errors == pass.errors + (IF result THEN 0 ELSE 1)
              delay == processing_delay(main.settings, errors)
          IN  /\ pass' = [pass EXCEPT !.idx = @ + 1, !.errors = errors,
                                      !.processed = @ + (IF result THEN 1 ELSE 0)]
              /\ now' = now + delay
              /\ lastOp' = [NoOp EXCEPT !.kind = "delay", !.success = result,
                                        !.waits = <<delay>>]
    /\ UNCHANGED <<events, rlVars, cbVars, storeVars, runs, lastProc,
                   lastExpand, main, peers>>

NextDelay == SleepBetweenVideos

SpecDelay == InitDelay /\ [][NextDelay]_vars

\* C30: the delay between two videos is the base delay with no error, twice
\* and three times the base with one and two errors, and otherwise
\* min(5 * base + errors * error_backoff_multiplier, max_processing_delay);
\* it never exceeds max_processing_delay and never falls when the error
\* count grows.
C30_DelayMonotoneAndCapped ==
    [][lastOp'.kind = "delay"
       => LET st == main.settings
              e == pass'.errors
              d == lastOp'.waits[1]
          IN  /\ d = now' - now
              /\ e = 0 => d = st.video_processing_delay
              /\ e = 1 => d = 2 * st.video_processing_delay
              /\ e = 2 => d = 3 * st.video_processing_delay
              /\ e >= 3 => d = Min(5 * st.video_processing_delay
                                     + e * st.error_backoff_multiplier,
                                   st.max_processing_delay)
              /\ d <= st.max_processing_delay
              /\ lastOp.kind = "delay" => d >= lastOp.waits[1]]_vars

(***************************************************************************)
(* Two threads on one RateLimiter, without a lock                           *)
(***************************************************************************)
\* A thread runs wait_if_needed on the shared limiter: get the verdict, and
\* when the request may proceed (at once, or after the sleep) stand before
\* record_request; a refused thread stays idle.
ThreadCheck(t) ==
    /\ peers.pc[t] = "idle"
    /\ LET w == wait_if_needed(rl, now) IN
       /\ rl' = w.data
       /\ peers' = [peers EXCEPT
                      !.pc[t] = IF w.proceed THEN "admitted" ELSE "idle",
                      !.wake[t] = IF w.proceed THEN w.now ELSE NoTime,
                      !.overlapped =
                          @ \/ \E u \in Threads \ {t} : peers.pc[u] = "admitted"]
       /\ lastOp' = [NoOp EXCEPT !.kind = "thread_check", !.reason = w.reason,
                                 !.admitted = w.proceed]
    /\ lastCheck' = now
    /\ UNCHANGED <<now, events, cacheFile, cbVars, storeVars, pass, runs,
                   lastProc, lastExpand, main>>

\* The thread has made its request: record_request(success) on the shared
\* limiter, at the end of its sleep when that lies ahead.
ThreadRecord(t) ==
    /\ peers.pc[t] = "admitted"
    /\ \E success \in BOOLEAN :
          /\ now' = Max(now, peers.wake[t])
          /\ rl' = record_request(rl, now', success)
          /\ lastOp' = [NoOp EXCEPT !.kind = "thread_record",
                                    !.recorded = TRUE, !.success = success]
    /\ cacheFile' = save_cache(cacheFile, rl', TRUE)
    /\ peers' = [peers EXCEPT !.pc[t] = "idle", !.wake[t] = NoTime]
    /\ UNCHANGED <<events, lastCheck, cbVars, storeVars, pass, runs, lastProc,
                   lastExpand, main>>

NextRace ==
    \/ Tick
    \/ \E t \in Threads : ThreadCheck(t)
    \/ \E t \in Threads : ThreadRecord(t)

SpecRace == InitRL /\ [][NextRace]_vars

\* C31: as long as no check was made while another caller stood between its
\* check and its record (a single caller), the requests recorded in the day
\* window and in the hour window stay within their limits.
C31_SingleCallerWithinLimits ==
    ~peers.overlapped
        => /\ DailyCount <= MaxRequestsPerDay
           /\ HourlyCount <= MaxRequestsPerHour

\* Two callers were admitted against the same count: the day window holds
\* more requests than the limit.
C31_RaceExceedsDaily ==
    /\ peers.overlapped
    /\ DailyCount > MaxRequestsPerDay

(***************************************************************************)
(* Two instances of the program on one Notion database. The first runs    *)
(* its pass with the actions above. The second, started from the same     *)
(* working directory, shares the Notion database, the local database, the *)
(* artifacts and the rate-limiter cache file, and has a RateLimiter and a *)
(* MultiPartSummarizer of its own; it takes the first video of its batch  *)
(* through process_single_video, the write of Processing and the rest of  *)
(* the call being two steps between which the first instance may act.     *)
(***************************************************************************)
\* The second instance's check_and_process_videos up to the batch: nothing
\* is left for it to expand, and its query returns every video whose Status
\* is not Completed, those in Processing included.
SecondFetch ==
    /\ peers.second.pc = "none"
    /\ playlists_to_expand(notion) = <<>>
    /\ LET batch == cap_batch(get_unprocessed_videos(notion)) IN
          /\ batch # <<>>
          /\ peers' = [peers EXCEPT !.second =
                          [NoSecond EXCEPT !.pc = "fetched", !.batch = batch,
                                           !.rl = load_cache(cacheFile)]]
    /\ lastOp' = [NoOp EXCEPT !.kind = "second_fetch"]
    /\ UNCHANGED <<now, events, rlVars, cbVars, storeVars, pass, runs, lastProc,
                   lastExpand, main>>

\* The second instance's process_single_video, first statement: the write of
\* Processing on the first video of its batch.
SecondClaim ==
    /\ peers.second.pc = "fetched"
    /\ LET p == peers.second.batch[1] IN
       \E w1 \in claim(World(now, events, peers.second.rl, cacheFile,
                             peers.second.cb, notion, db, artifacts), p) :
          /\ notion' = w1.notion
          /\ events' = w1.events
          /\ peers' = [peers EXCEPT !.second.pc = "claimed",
                                    !.second.page = p,
                                    !.second.runsAtClaim = runs,
                                    !.second.obs = w1.obs]
    /\ lastOp' = [NoOp EXCEPT !.kind = "second_claim"]
    /\ UNCHANGED <<now, rlVars, cbVars, db, artifacts, pass, runs, lastProc,
                   lastExpand, main>>

\* The second instance's process_single_video, the rest of the call.
SecondWork ==
    /\ peers.second.pc = "claimed"
    /\ \E r \in after_claim(
                   [World(now, events, peers.second.rl, cacheFile,
                          peers.second.cb, notion, db, artifacts)
                      EXCEPT !.obs = peers.second.obs],
                   peers.second.page, pass.force) :
          /\ now' = r.world.now
          /\ events' = r.world.events
          /\ cacheFile' = r.world.file
          /\ notion' = r.world.notion
          /\ db' = r.world.db
          /\ artifacts' = r.world.artifacts
          /\ peers' = [peers EXCEPT !.second.pc = "done",
                                    !.second.rl = r.world.rl,
                                    !.second.cb = r.world.cb,
                                    !.second.obs = r.world.obs,
                                    !.second.result = r.result]
    /\ lastOp' = [NoOp EXCEPT !.kind = "second_work"]
    /\ UNCHANGED <<rl, lastCheck, cbVars, pass, runs, lastProc, lastExpand, main>>

NextTwo ==
    \/ PassBegin \/ ExpandNext \/ PassFetch \/ ProcessNext
    \/ SecondFetch \/ SecondClaim \/ SecondWork

SpecTwo == InitSched /\ [][NextTwo]_vars

\* C32: within one pass of an instance, the page a step of the loop hands to
\* process_single_video is the next one of the batch and is none of those
\* the pass handed over before it: no item is processed twice in a pass.
C32_NoRepeatWithinPass ==
    [][(pass.pc = "items" /\ runs' = runs + 1)
         => /\ lastProc'.page = pass.batch[pass.idx]
            /\ \A i \in 1 .. (pass.idx - 1) : pass.batch[i] # lastProc'.page]_vars

\* Both instances set the same video to Processing and both called the
\* Content Source and the generation API for it: the second claimed it, the
\* first then found it in Processing and claimed it as well.
C32_DoubleClaim ==
    /\ peers.second.pc = "done"
    /\ peers.second.obs.claimed
    /\ peers.second.obs.contentCalled
    /\ peers.second.obs.genInvocations > 0
    /\ lastProc.inPass
    /\ lastProc.page = peers.second.page
    /\ lastProc.before = "Processing"
    /\ runs = peers.second.runsAtClaim + 1
    /\ lastProc.obs.claimed
    /\ lastProc.obs.contentCalled
    /\ lastProc.obs.genInvocations > 0

(***************************************************************************)
(* The request window across a day: runs of the RateLimiter in which the  *)
(* clock advances by almost a day and by almost the first backoff, so     *)
(* that a backoff can be running while a recorded request turns 24 hours  *)
(* old.                                                                   *)
(***************************************************************************)
\* The first backoff, in seconds: backoff_minutes at the threshold.
FirstBackoff == 60 * backoff_minutes(BackoffThreshold)

WindowSteps == {Day - FirstBackoff + 2, FirstBackoff - 1}

WindowTick ==
    /\ events < MaxEvents
    /\ \E d \in WindowSteps : now' = now + d
    /\ events' = events + 1
    /\ lastOp' = [NoOp EXCEPT !.kind = "tick"]
    /\ UNCHANGED <<rlVars, cbVars, procVars>>

NextWin == WindowTick \/ ExtractTranscript \/ CheckAdmission

SpecWin == InitRL /\ [][NextWin]_vars

\* C33: after can_make_request has returned, whatever it answered, the
\* window holds no request timestamp older than 24 hours (and the day and
\* hour counts, being lengths, are not negative).
C33_WindowPurgedAfterCheck ==
    lastOp.kind = "check"
      => /\ \A i \in 1 .. Len(rl.requests) : rl.requests[i] >= now - Day
         /\ DailyCount >= 0
         /\ HourlyCount >= 0

\* C34: in a pass every expansion is made before any item of the pass has
\* been handed to process_single_video, the loop over the items starts with
\* no playlist left to expand, and what it hands over is never a playlist
\* page.
C34_ExpansionsBeforeItems ==
    [][/\ (lastOp'.kind = "expand")
            => /\ pass.pc = "expand"
               /\ pass.idx = 0 /\ pass.processed = 0 /\ pass.errors = 0
       /\ (pass.pc = "items" /\ runs' = runs + 1)
            => /\ pass.playlists = <<>>
               /\ lastProc'.inPass
               /\ notion[lastProc'.page].kind = "video"]_vars

\* A pass that expanded a playlist and then handed a video of the batch,
\* the playlist's members in it, to process_single_video.
C34_Witness ==
    /\ lastExpand.marked
    /\ lastExpand.members # <<>>
    /\ lastProc.inPass
    /\ notion[lastProc.page].kind = "video"
    /\ Len(pass.batch) > 1
    /\ \A i \in 1 .. Len(pass.batch) : notion[pass.batch[i]].kind = "video"

\* C35: when a playlist page has just been marked Playlist Expanded, every
\* member the expansion went through has a video page in the Notion
\* database.
C35_ExpandedHoldsEveryMember ==
    (lastOp.kind = "expand" /\ lastExpand.marked)
      => \A i \in 1 .. Len(lastExpand.members) :
            \E p \in 1 .. Len(notion) :
               notion[p].kind = "video" /\ notion[p].vid = lastExpand.members[i]

\* C36: when process_single_video has returned True for a page, which it
\* does after _finalize_processing has set summary_generated on the local
\* row, the page's Status in the Notion database is Completed.
C36_TrueOnlyForCompleted ==
    (lastOp.kind = "process" /\ lastProc.result /\ ~lastProc.raised)
      => notion[lastProc.page].status = "Completed"

\* C37: in the loop of check_and_process_videos the error counter never
\* exceeds 1; after an item that is not the last the delay slept is the base
\* delay when no error has been counted and the doubled delay when one has,
\* in which case the doubled delay is slept and the loop then breaks; after
\* the last item nothing is slept.
C37_DelaysBaseOrDoubled ==
    [][(pass.pc = "items" /\ runs' = runs + 1 /\ ~lastProc'.raised)
         => LET remaining == Len(pass.batch) - pass.idx IN
            /\ pass'.errors <= 1
            /\ remaining = 0 => lastProc'.delay = 0
            /\ (remaining > 0 /\ pass'.errors = 0)
                 => /\ lastProc'.delay = VideoProcessingDelay
                    /\ pass'.pc = "items"
            /\ (remaining > 0 /\ pass'.errors = 1)
                 => /\ lastProc'.delay = 2 * VideoProcessingDelay
                    /\ lastProc'.aborted
                    /\ pass'.pc = "idle"]_vars

\* The first item of a batch failed with items remaining: the doubled delay
\* was slept and the pass stopped.
C37_Witness ==
    /\ lastOp.kind = "process"
    /\ lastProc.inPass
    /\ lastProc.countedError
    /\ lastProc.aborted
    /\ pass.errors = 1
    /\ pass.idx < Len(pass.batch)
    /\ lastProc.delay = 2 * VideoProcessingDelay

C39_FatalLeavesBreakerUnchanged ==
    [][(lastOp'.kind = "api_call" /\ lastOp'.reason = "fatal")
         => /\ cb'.consecutive_failures = cb.consecutive_failures
            /\ cb'.last_failure_time = cb.last_failure_time]_vars

\* C39, amended: a call that failed with a non-transient error left the
\* breaker's fields as its own check of the breaker at the start of the call
\* left them: unchanged, unless the breaker had tripped and its timeout had
\* run out, in which case that check reset them to 0 and None; the error
\* itself neither counts nor resets.
C39_FatalLeavesBreakerAsChecked ==
    [][(lastOp'.kind = "api_call" /\ lastOp'.reason = "fatal")
         => IF breaker_tripped(cb.consecutive_failures)
                 /\ cb.last_failure_time # NoTime
            THEN /\ now - cb.last_failure_time >= CircuitBreakerTimeout
                 /\ cb'.consecutive_failures = 0
                 /\ cb'.last_failure_time = NoTime
                 /\ cb'.last_api_call_time = cb.last_api_call_time
            ELSE cb' = cb]_vars

\* A call that failed with a non-transient error, after a transient one,
\* while an earlier exhausted call was still counted: the count is kept.
C39_Witness ==
    /\ lastOp.kind = "api_call"
    /\ lastOp.reason = "fatal"
    /\ lastOp.called
    /\ lastOp.fails > 0
    /\ cb.consecutive_failures > 0
    /\ cb.last_failure_time # NoTime

====
